---- MODULE Spec2Model ----
(***************************************************************************)
(* Model of the concurrent slot-filling pipeline of                        *)
(* Low-Latency-Conversation-Bot-with-Multithreading:                       *)
(*   - EntityStateManager (models/composer.cpp), sequential and under its  *)
(*     state_mutex;                                                        *)
(*   - the generation gate of ComposerCrew::composeQuestion and            *)
(*     CloserCrew::generateClosing;                                        *)
(*   - the worker pool of ComposerCrew;                                    *)
(*   - the slot-group planner and the turn pipeline of                     *)
(*     AdvancedSessionController (controllers/..._og.cpp);                 *)
(*   - SessionController with its session store, and the session router.   *)
(* Specifications:                                                         *)
(*   Spec         EntityStateManager, one API call per step                *)
(*   SpecConc     EntityStateManager, a writer and a reader thread         *)
(*                interleaved at the granularity of lock operations        *)
(*   SpecGate     composeQuestion / generateClosing, one step per          *)
(*                generator call                                           *)
(*   SpecPool     the worker pool (safety); FairSpecPool adds the          *)
(*                scheduler's fairness (liveness)                          *)
(*   SpecGroup    groupEntitiesForComposition on every list of slots       *)
(*   SpecTurn     AdvancedSessionController::processInput: the caller, the *)
(*                extraction task and the composition task interleaved     *)
(*   SpecSession  SessionController and the HTTP session router, called    *)
(*                by two threads                                           *)
(*   SpecRepeat   composeQuestion without a usable generator, called       *)
(*                repeatedly on one request                                *)
(*   SpecResize   adjustThreadCount called by two threads                  *)
(*   SpecLoad     adjustPerformanceBasedOnLoad beside the turns that move  *)
(*                the active-turn counter                                  *)
(*   SpecProbe    classifyAllEntities and extractWithFallback on every     *)
(*                combination of probe outcomes                            *)
(*   SpecStore    AppointmentManager::storeAppointment (safety);           *)
(*                FairSpecStore adds the scheduler's fairness              *)
(***************************************************************************)
EXTENDS Integers, Sequences, FiniteSets, TLC

VARIABLES
    \* ---- EntityStateManager ----
    entity_values,      \* std::unordered_map<string,string>: a function on the keys present
    lastKind,           \* history: the last mutating call ("none" after construction)
    lastNonEmpty,       \* history: the last call was an update and all its values were non-empty
    lastWasComplete,    \* history: isComplete() just before the last call
    twice,              \* history: the last step applied the same update twice in a row
    onceResult,         \* history: entity_values after the first of those two applications
    \* ---- EntityStateManager under its mutex (SpecConc) ----
    state_mutex,        \* holder of state_mutex: "free", "writer" or "reader"
    wpc,                \* writer thread position
    wUpdates,           \* the argument of the writer's updateMultipleEntities call
    wTodo,              \* keys of wUpdates the writer's loop has not assigned yet
    rpc,                \* reader thread position
    rKind,              \* which query the reader runs
    rSnap,              \* the value the reader's call returned
    committed,          \* history: entity_values as of the last completed mutating call
    rLin,               \* history: committed at the moment the reader copied
    rOverlap,           \* history: the reader's call overlapped a batch call in progress
    \* ---- the generation gate (SpecGate) ----
    crew,               \* the object under test: "composer" (ComposerCrew) or "closer" (CloserCrew)
    llm_interface,      \* TRUE iff the crew was constructed with a non-null LLMInterface
    quality_threshold,  \* ComposerCrew::quality_threshold, in hundredths
    max_retries,        \* ComposerCrew::max_retries
    confidence_threshold, \* CloserCrew::confidence_threshold, in hundredths
    closer_max_retries, \* CloserCrew::max_retries
    gpc,                \* position inside composeQuestion / generateClosing
    request,            \* the request of the call in progress
    limited_request,    \* composeQuestion's limited_request.missing_entities
    result,             \* the local variable `result`, and at "done" the value returned
    retry,              \* the retry loop's counter
    nCalls,             \* history: generateWithLLM calls made by the call in progress
    availAnswer,        \* history: what isAvailable() did: "none" (not called), "yes", "no", "throw"
    \* ---- ComposerCrew's worker pool (SpecPool) ----
    worker_threads,     \* std::vector<std::thread>: per thread its position and current task
    task_queue,         \* std::queue of tasks (task ids)
    stop_workers,       \* std::atomic<bool>
    num_worker_threads, \* int
    promise,            \* per task: "unsubmitted", "pending" or "fulfilled"
    execCount,          \* history: per task, how often a worker ran it
    cpc,                \* position of the thread that calls stopWorkers / adjustThreadCount
    cOp,                \* the call that thread is in, or made last
    cNew,               \* adjustThreadCount's new_count
    cIdx,               \* index of the join loop / count of the start loop
    resized,            \* history: the last adjustThreadCount call restarted the workers
    cPending,           \* history: the tasks queued or in flight when the stop in progress was called
    \* ---- the slot-group planner (SpecGroup) ----
    missing_entities,   \* the argument of groupEntitiesForComposition
    groups,             \* the value it returned
    grouped,            \* TRUE once it has returned
    \* ---- AdvancedSessionController::processInput (SpecTurn) ----
    tpc,                \* position of the thread that runs processInput
    detected_entities,  \* processInput's detected_entities
    undetected_entities, \* processInput's missing_entities: the slots NOT detected in this input
    should_compose,     \* processInput's should_compose
    etask,              \* the extraction task: "none", "running" or "done"
    extraction_results, \* what extractWithFallback returned, one record per detected slot
    aIdx,               \* index of the loop that applies extraction_results
    ctask,              \* the composition task: "none", "start", "compose", "done" or "threw"
    comp_request,       \* the CompositionRequest the composition task built
    composition_triggered, \* ProcessingResult::composition_triggered
    closing_triggered,  \* ProcessingResult::closing_triggered
    startState,         \* history: entity_values when the turn started
    closing_complete,   \* history: what isComplete() returned in the closing check
    \* ---- SessionController and the HTTP session router (SpecSession) ----
    mode,               \* "direct": the threads call one SessionController;
                        \* "router": they call the handlers of HTTPServer
    sessions_,          \* EntityStateManager::sessions_: session id -> ConfigModel
    active_sessions_,   \* EntityStateManager::active_sessions_: session id -> bool
    http_sessions,      \* HTTPServer::active_sessions_: the ids that have a controller
    controller_mutex_,  \* holder of SessionController::controller_mutex_, or "free"
    http_mutex,         \* holder of HTTPServer::sessions_mutex_, or "free"
    calls,              \* per calling thread: position, operation, arguments, locals, result
    ended,              \* history: the ids whose session was ended and not created again
    \* ---- composeQuestion called again on the same request (SpecRepeat) ----
    repeat_request,     \* the missing_entities of the request that is composed
    repeat_results,     \* the CompositionResults returned for it so far, in order
    \* ---- adjustThreadCount called by several threads (SpecResize) ----
    apc,                \* per calling thread: its position inside adjustThreadCount
    aNew,               \* per calling thread: the argument new_count
    aLoop,              \* per calling thread: index of its join loop / count of its start loop
    joined,             \* the indexes of worker_threads whose thread is no longer joinable
    lastDone,           \* history: new_count of the call that returned last, -1 before any
    aCalls,             \* history: the number of adjustThreadCount calls made
    terminated,         \* the process was ended (std::terminate, or a fault of the race)
    \* ---- load-driven sizing of the composition pool (SpecLoad) ----
    total_cpu_cores,    \* AdvancedSessionController::total_cpu_cores
    composition_threads, \* AdvancedSessionController::composition_threads
    active_processing_tasks, \* std::atomic<int>: processInput calls in progress
    turn_state,         \* per turn thread: the state of its processInput call
    turnsBegun,         \* history: the number of processInput calls made
    \* ---- the probes of ClassificationCrew and ExtractionCrew (SpecProbe) ----
    probe_pc,           \* "idle", or the call that has just returned: "classified", "extracted"
    svm_threshold,      \* ClassificationCrew::confidence_threshold, in hundredths
    ner_threshold,      \* ExtractionCrew::ner_confidence_threshold, in hundredths
    probes,             \* per slot: what its model does in the call (history of the input)
    probe_targets,      \* the slots the call was asked for, in request order
    probe_results,      \* the vector the call returned
    \* ---- AppointmentManager (SpecStore) ----
    confirmed_appointments, \* std::vector<AppointmentSummary>
    appointments_mutex, \* holder of appointments_mutex: "free" or "caller"
    store_pc,           \* position of the thread that calls storeAppointment
    store_arg,          \* the appointment passed to the call in progress
    store_ret,          \* the value the call returned
    store_before        \* history: confirmed_appointments when the call was made

esmHist  == <<lastKind, lastNonEmpty, lastWasComplete, twice, onceResult>>
esmVars  == <<entity_values, esmHist>>
concVars == <<state_mutex, wpc, wUpdates, wTodo, rpc, rKind, rSnap, committed, rLin,
              rOverlap>>
gateVars == <<crew, llm_interface, quality_threshold, max_retries, confidence_threshold,
              closer_max_retries, gpc, request, limited_request, result, retry, nCalls,
              availAnswer>>
poolVars == <<worker_threads, task_queue, stop_workers, num_worker_threads, promise,
              execCount, cpc, cOp, cNew, cIdx, resized, cPending>>
groupVars == <<missing_entities, groups, grouped>>
turnVars == <<tpc, detected_entities, undetected_entities, should_compose, etask,
              extraction_results, aIdx, ctask, comp_request, composition_triggered,
              closing_triggered, startState, closing_complete>>
sessionVars == <<mode, sessions_, active_sessions_, http_sessions, controller_mutex_,
                 http_mutex, calls, ended>>
repeatVars == <<repeat_request, repeat_results>>
resizeVars == <<apc, aNew, aLoop, joined, lastDone, aCalls, terminated>>
loadVars == <<total_cpu_cores, composition_threads, active_processing_tasks, turn_state,
              turnsBegun>>
probeVars == <<probe_pc, svm_threshold, ner_threshold, probes, probe_targets, probe_results>>
storeVars == <<confirmed_appointments, appointments_mutex, store_pc, store_arg, store_ret,
               store_before>>
moreVars == <<probeVars, storeVars>>
laterVars == <<groupVars, turnVars, sessionVars, repeatVars, resizeVars, loadVars, moreVars>>
vars == <<esmVars, concVars, gateVars, poolVars, laterVars>>

-----------------------------------------------------------------------------
(* Bounds *)

\* largest number of slots in one updateMultipleEntities argument
MaxBatch == 2
\* largest value given to setMaxRetries
MaxRetriesCap == 2
\* number of tasks submitted to the worker pool
MaxTasks == 2
\* largest worker count given to the constructor or to adjustThreadCount
MaxThreads == 2

-----------------------------------------------------------------------------
(* EntityStateManager: data *)

\* required_entities as the constructor sets it, in order
required_entities ==
    <<"caller_name", "phone_number", "day_preference", "time_preference", "service_type">>

SlotNames == {required_entities[i] : i \in 1..Len(required_entities)}

\* slot values: the empty string and two distinct non-empty strings
Values == {"", "v1", "v2"}

EmptyMap == [k \in {} |-> ""]

\* the update maps of at most n slots
Batches(n) ==
    UNION {[D -> Values] : D \in {D \in SUBSET SlotNames : Cardinality(D) <= n}}

AllBatches == Batches(MaxBatch)

NonEmptyValues(U) == \A k \in DOMAIN U : U[k] # ""

-----------------------------------------------------------------------------
(* EntityStateManager: the methods as functions of the map *)

\* faulty variant: assigning the value a key already has erases the key
SetEntryToggle(m, k, v) ==
    IF k \in DOMAIN m /\ m[k] = v
    THEN [x \in (DOMAIN m) \ {k} |-> m[x]]
    ELSE [x \in (DOMAIN m) \cup {k} |-> IF x = k THEN v ELSE m[x]]

\* entity_values[k] = v (operator[] inserts the key when absent)
SetEntry(m, k, v) == [x \in (DOMAIN m) \cup {k} |-> IF x = k THEN v ELSE m[x]]

\* updateEntity's body
ApplyUpdate(m, k, v) == SetEntry(m, k, v)

\* faulty variant: the map is replaced by `updates` instead of merged with it
ApplyUpdatesAssign(m, U) == U

\* the loop of updateMultipleEntities over the pairs of `updates`
RECURSIVE ApplyUpdates(_, _)
ApplyUpdates(m, U) ==
    IF DOMAIN U = {} THEN m
    ELSE LET k == CHOOSE x \in DOMAIN U : TRUE
         IN ApplyUpdates(SetEntry(m, k, U[k]), [x \in (DOMAIN U) \ {k} |-> U[x]])

GetEntity(m, k) == IF k \in DOMAIN m THEN m[k] ELSE ""

HasEntity(m, k) == k \in DOMAIN m /\ m[k] # ""

\* faulty variant: only an absent key counts as missing
GetMissingEntitiesAbsentOnly(m) ==
    SelectSeq(required_entities, LAMBDA entity : entity \notin DOMAIN m)

\* getMissingEntities: the required entities, in order, that are absent or empty
GetMissingEntities(m) ==
    SelectSeq(required_entities, LAMBDA entity : entity \notin DOMAIN m \/ m[entity] = "")

GetKnownEntities(m) == [k \in {x \in DOMAIN m : m[x] # ""} |-> m[k]]

IsComplete(m) == GetMissingEntities(m) = <<>>

\* the count of getCompletionPercentage's loop: the filled required entities
Filled(m) ==
    Len(SelectSeq(required_entities, LAMBDA entity : entity \in DOMAIN m /\ m[entity] # ""))

GetCompletionPercentage(m) == (Filled(m) * 100) \div Len(required_entities)

-----------------------------------------------------------------------------
(* The generation gate: data.  Scores are in hundredths (0.7f is 70). *)

\* ComposerCrew's constructor: quality_threshold(0.7f), max_retries(2)
DefaultQualityThreshold == 70
DefaultMaxRetries == 2
\* CloserCrew's constructor: confidence_threshold(0.8f), max_retries(2)
DefaultConfidenceThreshold == 80
DefaultCloserMaxRetries == 2
\* composeQuestion keeps at most this many missing entities
MaxTargets == 2
\* ComposerCrew::generateWithTemplate: a keyed template, the generic fallback
TemplateQuality == 80
GenericQuality == 50
\* CloserCrew::generateWithTemplate
ClosingTemplateConfidence == 85

\* thresholds given to setQualityThreshold / setConfidenceThreshold
Thresholds == {50, 70, 80, 90}

\* scores the generator's assessQuestionQuality returns
Qualities == {0, 60, 70, 85, 95}

\* what one generateWithLLM call meets in the generator
Outcomes ==
    {[kind |-> k, q |-> 0] : k \in {"throwGenerate", "empty", "throwAssess"}}
    \cup {[kind |-> "text", q |-> q] : q \in Qualities}

\* a slot name no template knows
UnknownSlot == "email_address"

\* the missing_entities lists of composition requests: up to MaxTargets + 1 names
TargetLists ==
    UNION {[1..n -> SlotNames \cup {UnknownSlot}] : n \in 0..(MaxTargets + 1)}

\* initializeTemplates
entity_templates ==
    ("caller_name+phone_number" :>
        <<"Great! Can you please tell me your name and phone number?",
          "I'd like to get your name and contact number, please.",
          "Could you provide your name and a phone number where I can reach you?">>) @@
    ("day_preference+time_preference" :>
        <<"What day and time would work best for your appointment?",
          "When would you prefer to schedule this? What day and time?",
          "Could you let me know your preferred day and time?">>) @@
    ("service_type+time_preference" :>
        <<"What service are you looking for and what time would work for you?",
          "Which service do you need and when would you prefer to come in?",
          "What type of appointment do you need and what time works best?">>) @@
    ("caller_name" :>
        <<"May I have your name, please?",
          "Could you tell me your name?",
          "What name should I put this appointment under?">>) @@
    ("phone_number" :>
        <<"What's the best phone number to reach you at?",
          "Could I get a contact number for you?",
          "What phone number should I use for this appointment?">>) @@
    ("day_preference" :>
        <<"What day would work best for you?",
          "Which day would you prefer for your appointment?",
          "What day are you looking to schedule this?">>) @@
    ("time_preference" :>
        <<"What time would work best for you?",
          "Do you have a preferred time?",
          "What time would you like to come in?">>) @@
    ("service_type" :>
        <<"What service are you looking for today?",
          "Which service do you need?",
          "What type of appointment would you like to schedule?">>)

GenericQuestion == "Could you please provide some additional information?"

\* indexes the random choice among a key's variants can give
Variants == 1..3

\* CompositionResult's default constructor
DefaultResult ==
    [generated_question |-> "", targeted_entities |-> <<>>, quality_score |-> 0,
     is_valid |-> FALSE, generation_method |-> "none"]

-----------------------------------------------------------------------------
(* ComposerCrew: the gate's pieces as functions *)

\* limited_request.missing_entities: the first two entries
LimitRequest(missing) ==
    IF Len(missing) > MaxTargets THEN SubSeq(missing, 1, MaxTargets) ELSE missing

\* generateWithLLM, for what the generator does in this call
GenerateWithLLM(o) ==
    CASE o.kind = "throwGenerate" -> DefaultResult
      [] o.kind = "empty" -> DefaultResult
      [] o.kind = "throwAssess" ->
            [DefaultResult EXCEPT !.generated_question = "llm text",
                                  !.generation_method = "llm_primary"]
      [] o.kind = "text" ->
            [DefaultResult EXCEPT !.generated_question = "llm text",
                                  !.generation_method = "llm_primary",
                                  !.quality_score = o.q,
                                  !.is_valid = TRUE]

\* the key generateWithTemplate builds from the missing entities
TemplateKey(missing) ==
    IF Len(missing) = 2 THEN missing[1] \o "+" \o missing[2]
    ELSE IF Len(missing) = 1 THEN missing[1]
    ELSE ""

\* faulty variant: the generic fallback forgets to set is_valid
GenerateWithTemplateGenericInvalid(missing, variant) ==
    LET template_key == TemplateKey(missing)
    IN IF template_key \in DOMAIN entity_templates /\ entity_templates[template_key] # <<>>
       THEN [DefaultResult EXCEPT
                !.generated_question = entity_templates[template_key][variant],
                !.quality_score = TemplateQuality,
                !.is_valid = TRUE,
                !.generation_method = "template"]
       ELSE [DefaultResult EXCEPT
                !.generated_question = GenericQuestion,
                !.quality_score = GenericQuality,
                !.generation_method = "template_fallback"]

\* faulty variant: the score of a keyed template depends on the variant drawn
GenerateWithTemplateVariantScore(missing, variant) ==
    LET template_key == TemplateKey(missing)
    IN IF template_key \in DOMAIN entity_templates /\ entity_templates[template_key] # <<>>
       THEN [DefaultResult EXCEPT
                !.generated_question = entity_templates[template_key][variant],
                !.quality_score = TemplateQuality + variant,
                !.is_valid = TRUE,
                !.generation_method = "template"]
       ELSE [DefaultResult EXCEPT
                !.generated_question = GenericQuestion,
                !.quality_score = GenericQuality,
                !.is_valid = TRUE,
                !.generation_method = "template_fallback"]

\* generateWithTemplate; `variant` is the random index
GenerateWithTemplate(missing, variant) ==
    LET template_key == TemplateKey(missing)
    IN IF template_key \in DOMAIN entity_templates /\ entity_templates[template_key] # <<>>
       THEN [DefaultResult EXCEPT
                !.generated_question = entity_templates[template_key][variant],
                !.quality_score = TemplateQuality,
                !.is_valid = TRUE,
                !.generation_method = "template"]
       ELSE [DefaultResult EXCEPT
                !.generated_question = GenericQuestion,
                !.quality_score = GenericQuality,
                !.is_valid = TRUE,
                !.generation_method = "template_fallback"]

\* faulty variant: an invalid first outcome is retried too
NeedsRetryIgnoringValidity(r, threshold) == r.quality_score < threshold

\* composeQuestion: "if (result.is_valid && result.quality_score < quality_threshold)"
NeedsRetry(r, threshold) == r.is_valid /\ r.quality_score < threshold

\* composeQuestion: "if (retry_result.quality_score > result.quality_score)"
RetryIsBetter(retry_result, r) == retry_result.quality_score > r.quality_score

\* faulty variant: the fallback test looks at is_valid only
NeedsFallbackValidOnly(r, threshold) == ~r.is_valid

\* composeQuestion: "if (!result.is_valid || result.quality_score < quality_threshold)"
NeedsFallback(r, threshold) == ~r.is_valid \/ r.quality_score < threshold

-----------------------------------------------------------------------------
(* CloserCrew: the gate's pieces as functions *)

\* ClosingResult's default constructor (appointment_summary and
\* confirmation_details, which no decision reads, are left out)
DefaultClosingResult ==
    [closing_message |-> "", needs_followup |-> FALSE, next_steps |-> "none",
     confidence_score |-> 0, is_valid |-> FALSE, generation_method |-> "none"]

\* entities[field] on the local copy: an absent key reads as the empty string
Field(entities, field) == IF field \in DOMAIN entities THEN entities[field] ELSE ""

Digits == {"0", "1", "2", "3", "4", "5", "6", "7", "8", "9"}

\* characters a..b of s are all digits
AllDigits(s, a, b) == \A i \in a..b : SubSeq(s, i, i) \in Digits

\* std::string::find(sub) != npos
Contains(s, sub) ==
    \E i \in 1..(Len(s) - Len(sub) + 1) : SubSeq(s, i, i + Len(sub) - 1) = sub

\* isValidPhoneNumber: regex_match against
\* \d{3}-\d{3}-\d{4} | \(\d{3}\)\s*\d{3}-\d{4} | \d{10}
IsValidPhoneNumber(phone) ==
    LET n == Len(phone)
    IN \/ /\ n = 12
          /\ AllDigits(phone, 1, 3) /\ SubSeq(phone, 4, 4) = "-"
          /\ AllDigits(phone, 5, 7) /\ SubSeq(phone, 8, 8) = "-"
          /\ AllDigits(phone, 9, 12)
       \/ /\ n >= 13
          /\ SubSeq(phone, 1, 1) = "(" /\ AllDigits(phone, 2, 4) /\ SubSeq(phone, 5, 5) = ")"
          /\ \A i \in 6..(n - 8) : SubSeq(phone, i, i) \in {" ", "\t", "\n", "\r", "\f"}
          /\ AllDigits(phone, n - 7, n - 5) /\ SubSeq(phone, n - 4, n - 4) = "-"
          /\ AllDigits(phone, n - 3, n)
       \/ /\ n = 10
          /\ AllDigits(phone, 1, 10)

\* isValidName
IsValidName(name) == name # "" /\ Len(name) >= 2 /\ Len(name) <= 50

valid_days == {"Monday", "Tuesday", "Wednesday", "Thursday", "Friday", "Saturday", "Sunday"}

\* isValidTimeSlot
IsValidTimeSlot(day, time) == day \in valid_days /\ time # ""

\* validateAppointmentData
ValidateAppointmentData(entities) ==
    /\ \A field \in SlotNames : field \in DOMAIN entities /\ entities[field] # ""
    /\ IsValidName(Field(entities, "caller_name"))
    /\ IsValidPhoneNumber(Field(entities, "phone_number"))
    /\ IsValidTimeSlot(Field(entities, "day_preference"), Field(entities, "time_preference"))

\* needsFollowup
NeedsFollowup(entities) ==
    IF "time_preference" \notin DOMAIN entities THEN TRUE
    ELSE LET time == entities["time_preference"]
         IN Contains(time, "morning") \/ Contains(time, "afternoon") \/ Contains(time, "evening")

\* generateNextSteps: which of the two lists of steps
GenerateNextSteps(entities) == IF NeedsFollowup(entities) THEN "followup" ELSE "standard"

\* CloserCrew::generateWithLLM, for what the generator does in this call
CloserGenerateWithLLM(o) ==
    CASE o.kind = "throwGenerate" -> DefaultClosingResult
      [] o.kind = "empty" -> DefaultClosingResult
      [] o.kind = "throwAssess" ->
            [DefaultClosingResult EXCEPT !.closing_message = "llm text",
                                         !.generation_method = "llm_primary"]
      [] o.kind = "text" ->
            [DefaultClosingResult EXCEPT !.closing_message = "llm text",
                                         !.generation_method = "llm_primary",
                                         !.confidence_score = o.q,
                                         !.is_valid = TRUE]

\* CloserCrew::generateWithTemplate: the message is the chosen closing template,
\* the appointment details and the chosen confirmation template; i and j are the
\* random indexes.  Its catch branch ("template_fallback") needs a fault of the
\* standard library inside the try block, which the model does not draw.
CloserGenerateWithTemplate(entities, i, j) ==
    [DefaultClosingResult EXCEPT
        !.closing_message =
            <<IF NeedsFollowup(entities) THEN "needs_confirmation" ELSE "standard", i,
              IF NeedsFollowup(entities) THEN "with_followup" ELSE "standard", j>>,
        !.confidence_score = ClosingTemplateConfidence,
        !.is_valid = TRUE,
        !.generation_method = "template"]

\* generateClosing: "if (result.is_valid && result.confidence_score < confidence_threshold)"
CloserNeedsRetry(r, threshold) == r.is_valid /\ r.confidence_score < threshold

\* generateClosing: "if (retry_result.confidence_score > result.confidence_score)"
CloserRetryIsBetter(retry_result, r) == retry_result.confidence_score > r.confidence_score

\* generateClosing: "if (!result.is_valid || result.confidence_score < confidence_threshold)"
CloserNeedsFallback(r, threshold) == ~r.is_valid \/ r.confidence_score < threshold

\* a complete, valid set of entities
BaseEntities ==
    [caller_name |-> "John", phone_number |-> "555-123-4567", day_preference |-> "Monday",
     time_preference |-> "3pm", service_type |-> "haircut"]

\* other values of one field: empty, malformed, or valid in another way
FieldValues ==
    [caller_name |-> {"", "J"},
     phone_number |-> {"", "12345", "(555) 123-4567", "5551234567", "555-1234-567"},
     day_preference |-> {"", "monday", "Friday"},
     time_preference |-> {"", "morning", "late afternoon"},
     service_type |-> {""}]

\* the complete_entities of closing requests: BaseEntities, and BaseEntities with
\* one field removed or given another value
ClosingRequests ==
    {BaseEntities}
    \cup {[k \in SlotNames \ {f} |-> BaseEntities[k]] : f \in SlotNames}
    \cup UNION {{[BaseEntities EXCEPT ![f] = v] : v \in FieldValues[f]} : f \in SlotNames}

-----------------------------------------------------------------------------
(* The slot-group planner: groupEntitiesForComposition and areEntitiesRelated *)
(* of AdvancedSessionController.  ComposerCrew::groupMissingEntities and its  *)
(* areEntitiesRelated are the same code, line for line.                       *)

\* the set of elements of a sequence
Range(seq) == {seq[k] : k \in 1..Len(seq)}

\* areEntitiesRelated's related_pairs
related_pairs ==
    {<<"caller_name", "phone_number">>, <<"day_preference", "time_preference">>,
     <<"service_type", "time_preference">>, <<"service_type", "day_preference">>}

\* faulty variant: the pair is looked up in one orientation only
AreEntitiesRelatedOneWay(entity1, entity2) ==
    \E pair \in related_pairs : entity1 = pair[1] /\ entity2 = pair[2]

\* areEntitiesRelated
AreEntitiesRelated(entity1, entity2) ==
    \E pair \in related_pairs :
        \/ entity1 = pair[1] /\ entity2 = pair[2]
        \/ entity1 = pair[2] /\ entity2 = pair[1]

\* std::vector::erase of the element at index k
EraseAt(seq, k) == SubSeq(seq, 1, k - 1) \o SubSeq(seq, k + 1, Len(seq))

\* faulty variant: the seed is paired with whatever comes next
RelatedIndexesAny(seed, remaining) == 1..Len(remaining)

\* the inner for loop: the indexes of `remaining` that hold an entity related to the seed
RelatedIndexes(seed, remaining) ==
    {k \in 1..Len(remaining) : AreEntitiesRelated(seed, remaining[k])}

\* the index at which the inner loop breaks
FirstIndex(S) == CHOOSE k \in S : \A j \in S : k <= j

\* groupEntitiesForComposition: the while loop
RECURSIVE GroupEntitiesForComposition(_)
GroupEntitiesForComposition(remaining) ==
    IF remaining = <<>> THEN <<>>
    ELSE LET seed == Head(remaining)
             rest == Tail(remaining)
             hits == RelatedIndexes(seed, rest)
         IN IF hits = {}
            THEN <<(<<seed>>)>> \o GroupEntitiesForComposition(rest)
            ELSE <<(<<seed, rest[FirstIndex(hits)]>>)>>
                     \o GroupEntitiesForComposition(EraseAt(rest, FirstIndex(hits)))

-----------------------------------------------------------------------------
(* Spec: EntityStateManager, one call per step.  Every method holds        *)
(* state_mutex from entry to return, so calls are serialised.              *)

\* the history variables after a call of `kind` with update map U that led to map m1
\* (m1 is also the map after the first application when the update is applied twice)
Record(kind, U, isTwice, m1) ==
    /\ lastKind' = kind
    /\ lastNonEmpty' = (kind # "reset" /\ NonEmptyValues(U))
    /\ lastWasComplete' = IsComplete(entity_values)
    /\ twice' = isTwice
    /\ onceResult' = m1

InitEsm ==
    /\ entity_values = EmptyMap
    /\ lastKind = "none"
    /\ lastNonEmpty = FALSE
    /\ lastWasComplete = FALSE
    /\ twice = FALSE
    /\ onceResult = EmptyMap

InitConcIdle ==
    /\ state_mutex = "free"
    /\ wpc = "idle"
    /\ wUpdates = EmptyMap
    /\ wTodo = {}
    /\ rpc = "idle"
    /\ rKind = "none"
    /\ rSnap = EmptyMap
    /\ committed = EmptyMap
    /\ rLin = EmptyMap
    /\ rOverlap = FALSE

\* a ComposerCrew and a CloserCrew as constructed, no call in progress
InitGateConfig ==
    /\ quality_threshold = DefaultQualityThreshold
    /\ max_retries = DefaultMaxRetries
    /\ confidence_threshold = DefaultConfidenceThreshold
    /\ closer_max_retries = DefaultCloserMaxRetries

\* no composeQuestion or generateClosing call in progress
GateCallIdle ==
    /\ gpc = "idle"
    /\ request = <<>>
    /\ limited_request = <<>>
    /\ result = DefaultResult
    /\ retry = 0
    /\ nCalls = 0
    /\ availAnswer = "none"

InitGateIdle == InitGateConfig /\ GateCallIdle

\* the worker pool's control thread and tasks before any call
InitPoolIdle ==
    /\ task_queue = <<>>
    /\ stop_workers = FALSE
    /\ promise = [t \in 1..MaxTasks |-> "unsubmitted"]
    /\ execCount = [t \in 1..MaxTasks |-> 0]
    /\ cpc = "idle"
    /\ cOp = "none"
    /\ cNew = 0
    /\ cIdx = 0
    /\ resized = FALSE
    /\ cPending = {}

\* ComposerCrew's constructor with num_threads = n: startWorkers has run
InitPoolThreads(n) ==
    /\ num_worker_threads = n
    /\ worker_threads = [i \in 1..n |-> [pc |-> "wait", task |-> 0]]

\* the planner before any call
InitGroupIdle ==
    /\ missing_entities = <<>>
    /\ groups = <<>>
    /\ grouped = FALSE

\* CompositionRequest's default constructor (conversation_context is left out)
NoRequest == [missing_entities |-> <<>>, known_entities |-> EmptyMap]

\* no processInput call in progress
InitTurnIdle ==
    /\ tpc = "idle"
    /\ detected_entities = <<>>
    /\ undetected_entities = <<>>
    /\ should_compose = FALSE
    /\ etask = "none"
    /\ extraction_results = <<>>
    /\ aIdx = 0
    /\ ctask = "none"
    /\ comp_request = NoRequest
    /\ composition_triggered = FALSE
    /\ closing_triggered = FALSE
    /\ startState = EmptyMap
    /\ closing_complete = FALSE

\* the threads that call SessionController or the router, and the ids they use
SessionThreads == {"t1", "t2"}
SessionIds == {"s1", "s2"}

\* EntitiesModel's default constructor; status is the HTTP status the router
\* sends (0 when the controller is called directly); question and entities
\* are left out
NoResult == [status |-> 0, response |-> "", session_active |-> FALSE]

\* ConfigModel's fields, in the order get_empty_entities tests them
ConfigFields == <<"name", "phone", "email", "service", "day", "time", "stylist", "notes">>

\* ConfigModel's default constructor: every field empty
ConfigModel == [f \in Range(ConfigFields) |-> ""]

\* a thread that is not in a call
NoCall ==
    [pc |-> "idle", op |-> "none", id |-> "", current_entities |-> ConfigModel,
     entities_to_extract |-> <<>>, result |-> NoResult, filled_beside_known |-> FALSE]

\* SessionController and HTTPServer after construction, no call in progress
InitSessionObjects ==
    /\ sessions_ = EmptyMap
    /\ active_sessions_ = EmptyMap
    /\ http_sessions = {}
    /\ controller_mutex_ = "free"
    /\ http_mutex = "free"
    /\ calls = [t \in SessionThreads |-> NoCall]
    /\ ended = {}

InitSessionIdle == mode = "direct" /\ InitSessionObjects

\* everything outside EntityStateManager, the gate and the pool, before any call
\* no request composed yet
InitRepeatIdle ==
    /\ repeat_request = <<>>
    /\ repeat_results = <<>>

\* the threads that call adjustThreadCount
ResizeThreads == {1, 2}

\* no adjustThreadCount call made yet
InitResizeIdle ==
    /\ apc = [t \in ResizeThreads |-> "idle"]
    /\ aNew = [t \in ResizeThreads |-> 0]
    /\ aLoop = [t \in ResizeThreads |-> 0]
    /\ joined = {}
    /\ lastDone = -1
    /\ aCalls = 0
    /\ terminated = FALSE

\* the threads that call processInput (through processInputAsync)
TurnThreads == {1, 2}

\* optimizeThreadAllocation: composition_threads for a number of cores
OptimizeThreadAllocation(cores) ==
    IF cores >= 8 THEN 2
    ELSE IF cores >= 4 THEN 1
    ELSE 1

\* no turn begun yet, the counter at its initial value
InitTurnsIdle ==
    /\ active_processing_tasks = 0
    /\ turn_state = [t \in TurnThreads |-> "Idle"]
    /\ turnsBegun = 0

\* the controller's constructor on a machine that reports `cores` cores
InitCores(cores) ==
    /\ total_cpu_cores = cores
    /\ composition_threads = OptimizeThreadAllocation(cores)

InitLoadIdle == InitCores(4) /\ InitTurnsIdle

\* a probe of a slot that is not asked for
NoProbe == [kind |-> "none", confidence |-> 0, text |-> ""]

\* the crews as the controllers construct them (thresholds 0.7 and 0.5), no call made
InitProbeIdle ==
    /\ probe_pc = "idle"
    /\ svm_threshold = 70
    /\ ner_threshold = 50
    /\ probes = [e \in SlotNames |-> NoProbe]
    /\ probe_targets = <<>>
    /\ probe_results = <<>>

\* an AppointmentSummary, reduced to the fields storeAppointment reads
Appointment(day, time) == [preferred_day |-> day, preferred_time |-> time]

\* AppointmentManager after construction, no call made
InitStoreIdle ==
    /\ confirmed_appointments = <<>>
    /\ appointments_mutex = "free"
    /\ store_pc = "idle"
    /\ store_arg = Appointment("", "")
    /\ store_ret = FALSE
    /\ store_before = <<>>

InitMoreIdle == InitProbeIdle /\ InitStoreIdle

InitLaterIdle ==
    /\ InitGroupIdle /\ InitTurnIdle /\ InitSessionIdle /\ InitRepeatIdle /\ InitResizeIdle
    /\ InitLoadIdle /\ InitMoreIdle

Init ==
    /\ InitEsm /\ InitConcIdle
    /\ crew = "composer" /\ llm_interface = FALSE /\ InitGateIdle
    /\ InitPoolIdle /\ InitPoolThreads(1)
    /\ InitLaterIdle

UpdateEntity(k, v) ==
    /\ entity_values' = ApplyUpdate(entity_values, k, v)
    /\ Record("updateEntity", [x \in {k} |-> v], FALSE, entity_values')
    /\ UNCHANGED <<concVars, gateVars, poolVars, laterVars>>

UpdateMultipleEntities(U) ==
    /\ entity_values' = ApplyUpdates(entity_values, U)
    /\ Record("updateMultipleEntities", U, FALSE, entity_values')
    /\ UNCHANGED <<concVars, gateVars, poolVars, laterVars>>

\* a caller that makes the same updateEntity call twice in a row (non-empty value)
UpdateEntityTwice(k, v) ==
    /\ entity_values' = ApplyUpdate(ApplyUpdate(entity_values, k, v), k, v)
    /\ Record("updateEntity", [x \in {k} |-> v], TRUE, ApplyUpdate(entity_values, k, v))
    /\ UNCHANGED <<concVars, gateVars, poolVars, laterVars>>

\* a caller that makes the same updateMultipleEntities call twice in a row
\* (non-empty values)
UpdateMultipleEntitiesTwice(U) ==
    /\ entity_values' = ApplyUpdates(ApplyUpdates(entity_values, U), U)
    /\ Record("updateMultipleEntities", U, TRUE, ApplyUpdates(entity_values, U))
    /\ UNCHANGED <<concVars, gateVars, poolVars, laterVars>>

Reset ==
    /\ entity_values' = EmptyMap
    /\ Record("reset", EmptyMap, FALSE, EmptyMap)
    /\ UNCHANGED <<concVars, gateVars, poolVars, laterVars>>

Next ==
    \/ \E k \in SlotNames, v \in Values : UpdateEntity(k, v)
    \/ \E U \in AllBatches : UpdateMultipleEntities(U)
    \/ \E k \in SlotNames, v \in Values \ {""} : UpdateEntityTwice(k, v)
    \/ \E U \in {B \in AllBatches : NonEmptyValues(B)} : UpdateMultipleEntitiesTwice(U)
    \/ Reset

Spec == Init /\ [][Next]_vars

-----------------------------------------------------------------------------
(* Claims about EntityStateManager, checked under Spec *)

\* C1: an update whose value for a slot is the empty string (updateEntity or
\* updateMultipleEntities) never clears the slot: a slot known before the call
\* is known with the same value after it.
C1_EmptyUpdateKeepsSlot ==
    [][\A k \in SlotNames :
          ( /\ HasEntity(entity_values, k)
            /\ \/ UpdateEntity(k, "")
               \/ \E U \in AllBatches :
                     k \in DOMAIN U /\ U[k] = "" /\ UpdateMultipleEntities(U) )
          => (HasEntity(entity_values', k) /\ entity_values'[k] = entity_values[k])]_vars

\* C2: once isComplete() is true, an updateEntity/updateMultipleEntities call
\* (or two of them in a row) whose values are all non-empty leaves it true.
C2_CompletionMonotone ==
    (lastWasComplete /\ lastNonEmpty) => IsComplete(entity_values)

\* a complete state in which a non-empty updateEntity call was just made on a
\* state that was complete already
C2_Witness ==
    /\ lastWasComplete
    /\ lastNonEmpty
    /\ lastKind = "updateEntity"
    /\ IsComplete(entity_values)
    /\ \E k \in SlotNames : entity_values[k] = "v2"

\* C3: applying the same non-empty update twice in a row leaves the map exactly
\* as it was after the first application.
C3_IdempotentApply ==
    (twice /\ lastNonEmpty) => entity_values = onceResult

\* a two-slot non-empty batch was applied twice in a row
C3_Witness ==
    /\ twice
    /\ lastNonEmpty
    /\ lastKind = "updateMultipleEntities"
    /\ Cardinality({k \in DOMAIN entity_values : entity_values[k] # ""}) >= 2
    /\ entity_values = onceResult

\* position of a slot in required_entities
IndexOf(s) == CHOOSE i \in 1..Len(required_entities) : required_entities[i] = s

\* C4: a slot is known (hasEntity, and a key of getKnownEntities) iff it is
\* present with a non-empty value; getMissingEntities lists exactly the required
\* slots that are not known, each once, in required-slot order; isComplete is true
\* iff no required slot is missing.
C4_KnownMissingComplete ==
    LET known   == GetKnownEntities(entity_values)
        missing == GetMissingEntities(entity_values)
        present == {k \in SlotNames : k \in DOMAIN entity_values /\ entity_values[k] # ""}
    IN /\ \A k \in SlotNames : HasEntity(entity_values, k) <=> k \in present
       /\ DOMAIN known = present
       /\ \A k \in present : known[k] = entity_values[k] /\ GetEntity(entity_values, k) = known[k]
       /\ {missing[i] : i \in 1..Len(missing)} = SlotNames \ present
       /\ \A i, j \in 1..Len(missing) : i < j => IndexOf(missing[i]) < IndexOf(missing[j])
       /\ IsComplete(entity_values) <=> (SlotNames \ present = {})
       /\ GetCompletionPercentage(entity_values) = 100 <=> IsComplete(entity_values)

\* a state with a known slot, a slot present with the empty string and an absent slot
C4_Witness ==
    /\ \E k \in SlotNames : HasEntity(entity_values, k)
    /\ \E k \in SlotNames : k \in DOMAIN entity_values /\ entity_values[k] = ""
    /\ \E k \in SlotNames : k \notin DOMAIN entity_values
    /\ Len(GetMissingEntities(entity_values)) >= 2

-----------------------------------------------------------------------------
(* SpecConc: EntityStateManager under state_mutex.  A writer thread calls    *)
(* updateMultipleEntities and a reader thread calls getKnownEntities or      *)
(* getMissingEntities; the steps are the lock operations and the single      *)
(* assignments of the writer's loop.                                         *)

\* the slots the concurrent writer updates
ConcSlots == {"day_preference", "time_preference"}

ConcBatches == UNION {[D -> Values] : D \in SUBSET ConcSlots}

\* faulty variant: updateMultipleEntities without its lock_guard
WriterLocksNot == FALSE

\* updateMultipleEntities holds std::lock_guard<std::mutex> lock(state_mutex)
WriterLocks == TRUE

\* the writer enters updateMultipleEntities(U)
WCall(U) ==
    /\ wpc = "idle"
    /\ wpc' = "acquire"
    /\ wUpdates' = U
    /\ wTodo' = DOMAIN U
    /\ rOverlap' = (rOverlap \/ rpc \in {"acquire", "locked"})
    /\ UNCHANGED <<esmVars, state_mutex, rpc, rKind, rSnap, committed, rLin>>
    /\ UNCHANGED <<gateVars, poolVars, laterVars>>

\* the writer's lock_guard constructor returns
WAcquire ==
    /\ wpc = "acquire"
    /\ WriterLocks => state_mutex = "free"
    /\ state_mutex' = IF WriterLocks THEN "writer" ELSE state_mutex
    /\ wpc' = "loop"
    /\ UNCHANGED <<esmVars, wUpdates, wTodo, rpc, rKind, rSnap, committed, rLin, rOverlap>>
    /\ UNCHANGED <<gateVars, poolVars, laterVars>>

\* one iteration of the writer's loop; unordered_map iteration order is unspecified
WAssign(k) ==
    /\ wpc = "loop"
    /\ k \in wTodo
    /\ entity_values' = SetEntry(entity_values, k, wUpdates[k])
    /\ wTodo' = wTodo \ {k}
    /\ UNCHANGED <<esmHist, state_mutex, wpc, wUpdates, rpc, rKind, rSnap, committed, rLin,
                   rOverlap>>
    /\ UNCHANGED <<gateVars, poolVars, laterVars>>

\* the loop is over: the lock_guard is destroyed and the call returns
WRelease ==
    /\ wpc = "loop"
    /\ wTodo = {}
    /\ state_mutex' = IF WriterLocks THEN "free" ELSE state_mutex
    /\ wpc' = "idle"
    /\ committed' = entity_values
    /\ UNCHANGED <<esmVars, wUpdates, wTodo, rpc, rKind, rSnap, rLin, rOverlap>>
    /\ UNCHANGED <<gateVars, poolVars, laterVars>>

\* the reader enters getKnownEntities or getMissingEntities
RCall(kind) ==
    /\ rpc \in {"idle", "done"}
    /\ rpc' = "acquire"
    /\ rKind' = kind
    /\ rSnap' = EmptyMap
    /\ rLin' = EmptyMap
    /\ rOverlap' = (wpc # "idle")
    /\ UNCHANGED <<esmVars, state_mutex, wpc, wUpdates, wTodo, committed>>
    /\ UNCHANGED <<gateVars, poolVars, laterVars>>

\* the reader's lock_guard constructor returns
RAcquire ==
    /\ rpc = "acquire"
    /\ state_mutex = "free"
    /\ state_mutex' = "reader"
    /\ rpc' = "locked"
    /\ UNCHANGED <<esmVars, wpc, wUpdates, wTodo, rKind, rSnap, committed, rLin, rOverlap>>
    /\ UNCHANGED <<gateVars, poolVars, laterVars>>

\* the reader builds its result under the lock and returns it by value
RCopy ==
    /\ rpc = "locked"
    /\ rSnap' = IF rKind = "getKnownEntities"
                THEN GetKnownEntities(entity_values)
                ELSE GetMissingEntities(entity_values)
    /\ rLin' = committed
    /\ state_mutex' = "free"
    /\ rpc' = "done"
    /\ UNCHANGED <<esmVars, wpc, wUpdates, wTodo, rKind, committed, rOverlap>>
    /\ UNCHANGED <<gateVars, poolVars, laterVars>>

NextConc ==
    \/ \E U \in ConcBatches : WCall(U)
    \/ WAcquire
    \/ \E k \in ConcSlots : WAssign(k)
    \/ WRelease
    \/ \E kind \in {"getKnownEntities", "getMissingEntities"} : RCall(kind)
    \/ RAcquire
    \/ RCopy

SpecConc == Init /\ [][NextConc]_vars

\* C5: a getKnownEntities/getMissingEntities call observes the map as it was
\* at the end of a completed updateMultipleEntities call (or at construction):
\* of a batch running concurrently it sees none or all of the values; and the
\* value it returned is not changed by later updates.
C5_BatchAtomic ==
    /\ [](rpc = "done" =>
            /\ rKind = "getKnownEntities" => rSnap = GetKnownEntities(rLin)
            /\ rKind = "getMissingEntities" => rSnap = GetMissingEntities(rLin))
    /\ [][(rpc = "done" /\ rpc' = "done") => rSnap' = rSnap]_vars

\* a getKnownEntities call that overlapped a two-slot batch changing both
\* slots, and returned all of the batch's values
C5_Witness ==
    /\ rpc = "done"
    /\ rKind = "getKnownEntities"
    /\ rOverlap
    /\ wpc = "idle"
    /\ DOMAIN wUpdates = ConcSlots
    /\ \A k \in ConcSlots : wUpdates[k] = "v2" /\ k \in DOMAIN rSnap /\ rSnap[k] = "v2"
    /\ rLin = committed

-----------------------------------------------------------------------------
(* SpecGate: one crew object, a ComposerCrew or a CloserCrew, with or        *)
(* without a generator.  composeQuestion / generateClosing advance by one    *)
(* step per call to the generator; what the generator does in each call      *)
(* (throw, return nothing, return a text of some quality) is drawn freely.   *)

otherThanGate == <<esmVars, concVars, poolVars, laterVars>>

\* the call's frame is gone: back to GateCallIdle
LeaveGateCall ==
    /\ gpc' = "idle"
    /\ request' = <<>>
    /\ limited_request' = <<>>
    /\ result' = DefaultResult
    /\ retry' = 0
    /\ nCalls' = 0
    /\ availAnswer' = "none"

gateObject == <<crew, llm_interface>>

composerConfig == <<quality_threshold, max_retries>>

closerConfig == <<confidence_threshold, closer_max_retries>>

InitGate ==
    /\ InitEsm /\ InitConcIdle
    /\ crew \in {"composer", "closer"}
    /\ llm_interface \in BOOLEAN
    /\ InitGateIdle
    /\ InitPoolIdle /\ InitPoolThreads(1)
    /\ InitLaterIdle

\* ComposerCrew::setQualityThreshold
SetQualityThreshold(threshold) ==
    /\ crew = "composer" /\ gpc = "idle"
    /\ quality_threshold' = threshold
    /\ UNCHANGED <<gateObject, max_retries, closerConfig, gpc, request, limited_request,
                   result, retry, nCalls, availAnswer>>
    /\ UNCHANGED otherThanGate

\* ComposerCrew::setMaxRetries
SetMaxRetries(retries) ==
    /\ crew = "composer" /\ gpc = "idle"
    /\ max_retries' = retries
    /\ UNCHANGED <<gateObject, quality_threshold, closerConfig, gpc, request, limited_request,
                   result, retry, nCalls, availAnswer>>
    /\ UNCHANGED otherThanGate

\* composeQuestion is entered: the request is limited to its first two entities
ComposeQuestion(missing) ==
    /\ crew = "composer" /\ gpc = "idle"
    /\ request' = missing
    /\ limited_request' = LimitRequest(missing)
    /\ result' = DefaultResult
    /\ retry' = 0
    /\ nCalls' = 0
    /\ availAnswer' = "none"
    /\ gpc' = "avail"
    /\ UNCHANGED <<gateObject, composerConfig, closerConfig>>
    /\ UNCHANGED otherThanGate

\* "if (llm_interface && llm_interface->isAvailable())": the call to isAvailable
\* is in no try block, so a fault it raises leaves composeQuestion
ComposerCheckAvailable ==
    /\ crew = "composer" /\ gpc = "avail"
    /\ IF ~llm_interface
       THEN /\ gpc' = "fallback"
            /\ UNCHANGED availAnswer
       ELSE \E a \in {"yes", "no", "throw"} :
               /\ availAnswer' = a
               /\ gpc' = CASE a = "yes" -> "first"
                           [] a = "no" -> "fallback"
                           [] a = "throw" -> "threw"
    /\ UNCHANGED <<gateObject, composerConfig, closerConfig, request, limited_request, result,
                   retry, nCalls>>
    /\ UNCHANGED otherThanGate

\* "result = generateWithLLM(limited_request)" and the test that opens the retry loop
ComposerFirstCall ==
    /\ crew = "composer" /\ gpc = "first"
    /\ \E o \in Outcomes : result' = GenerateWithLLM(o)
    /\ nCalls' = 1
    /\ gpc' = IF NeedsRetry(result', quality_threshold) /\ 0 < max_retries
              THEN "retry" ELSE "fallback"
    /\ UNCHANGED <<gateObject, composerConfig, closerConfig, request, limited_request, retry,
                   availAnswer>>
    /\ UNCHANGED otherThanGate

\* one iteration of "for (int retry = 0; retry < max_retries; ++retry)"
ComposerRetryCall ==
    /\ crew = "composer" /\ gpc = "retry"
    /\ \E o \in Outcomes :
          LET retry_result == GenerateWithLLM(o)
          IN IF RetryIsBetter(retry_result, result)
             THEN /\ result' = retry_result
                  /\ retry' = retry
                  /\ gpc' = "fallback"
             ELSE /\ result' = result
                  /\ retry' = retry + 1
                  /\ gpc' = IF retry + 1 < max_retries THEN "retry" ELSE "fallback"
    /\ nCalls' = nCalls + 1
    /\ UNCHANGED <<gateObject, composerConfig, closerConfig, request, limited_request,
                   availAnswer>>
    /\ UNCHANGED otherThanGate

\* the template fallback, "result.targeted_entities = ..." and the return
ComposerFallback ==
    /\ crew = "composer" /\ gpc = "fallback"
    /\ \E variant \in Variants :
          result' = [(IF NeedsFallback(result, quality_threshold)
                      THEN GenerateWithTemplate(limited_request, variant)
                      ELSE result)
                     EXCEPT !.targeted_entities = limited_request]
    /\ gpc' = "done"
    /\ UNCHANGED <<gateObject, composerConfig, closerConfig, request, limited_request, retry,
                   nCalls, availAnswer>>
    /\ UNCHANGED otherThanGate

\* the caller has taken the returned value, or what was thrown
ComposerReturn ==
    /\ crew = "composer" /\ gpc \in {"done", "threw"}
    /\ LeaveGateCall
    /\ UNCHANGED <<gateObject, composerConfig, closerConfig>>
    /\ UNCHANGED otherThanGate

\* CloserCrew::setConfidenceThreshold
SetConfidenceThreshold(threshold) ==
    /\ crew = "closer" /\ gpc = "idle"
    /\ confidence_threshold' = threshold
    /\ UNCHANGED <<gateObject, composerConfig, closer_max_retries, gpc, request,
                   limited_request, result, retry, nCalls, availAnswer>>
    /\ UNCHANGED otherThanGate

\* CloserCrew::setMaxRetries
CloserSetMaxRetries(retries) ==
    /\ crew = "closer" /\ gpc = "idle"
    /\ closer_max_retries' = retries
    /\ UNCHANGED <<gateObject, composerConfig, confidence_threshold, gpc, request,
                   limited_request, result, retry, nCalls, availAnswer>>
    /\ UNCHANGED otherThanGate

\* generateClosing is entered: data that does not validate returns the template
\* closing at once (needs_followup and next_steps keep their defaults)
GenerateClosing(entities) ==
    /\ crew = "closer" /\ gpc = "idle"
    /\ request' = entities
    /\ retry' = 0
    /\ nCalls' = 0
    /\ availAnswer' = "none"
    /\ IF ~ValidateAppointmentData(entities)
       THEN /\ \E i \in Variants, j \in Variants :
                  result' = CloserGenerateWithTemplate(entities, i, j)
            /\ gpc' = "done"
       ELSE /\ result' = DefaultClosingResult
            /\ gpc' = "avail"
    /\ UNCHANGED <<gateObject, composerConfig, closerConfig, limited_request>>
    /\ UNCHANGED otherThanGate

\* "if (llm_interface && llm_interface->isAvailable())", in no try block
CloserCheckAvailable ==
    /\ crew = "closer" /\ gpc = "avail"
    /\ IF ~llm_interface
       THEN /\ gpc' = "fallback"
            /\ UNCHANGED availAnswer
       ELSE \E a \in {"yes", "no", "throw"} :
               /\ availAnswer' = a
               /\ gpc' = CASE a = "yes" -> "first"
                           [] a = "no" -> "fallback"
                           [] a = "throw" -> "threw"
    /\ UNCHANGED <<gateObject, composerConfig, closerConfig, request, limited_request, result,
                   retry, nCalls>>
    /\ UNCHANGED otherThanGate

\* "result = generateWithLLM(request)" and the test that opens the retry loop
CloserFirstCall ==
    /\ crew = "closer" /\ gpc = "first"
    /\ \E o \in Outcomes : result' = CloserGenerateWithLLM(o)
    /\ nCalls' = 1
    /\ gpc' = IF CloserNeedsRetry(result', confidence_threshold) /\ 0 < closer_max_retries
              THEN "retry" ELSE "fallback"
    /\ UNCHANGED <<gateObject, composerConfig, closerConfig, request, limited_request, retry,
                   availAnswer>>
    /\ UNCHANGED otherThanGate

\* one iteration of generateClosing's retry loop
CloserRetryCall ==
    /\ crew = "closer" /\ gpc = "retry"
    /\ \E o \in Outcomes :
          LET retry_result == CloserGenerateWithLLM(o)
          IN IF CloserRetryIsBetter(retry_result, result)
             THEN /\ result' = retry_result
                  /\ retry' = retry
                  /\ gpc' = "fallback"
             ELSE /\ result' = result
                  /\ retry' = retry + 1
                  /\ gpc' = IF retry + 1 < closer_max_retries THEN "retry" ELSE "fallback"
    /\ nCalls' = nCalls + 1
    /\ UNCHANGED <<gateObject, composerConfig, closerConfig, request, limited_request,
                   availAnswer>>
    /\ UNCHANGED otherThanGate

\* the template fallback, the appointment details and next steps, and the return
CloserFallback ==
    /\ crew = "closer" /\ gpc = "fallback"
    /\ \E i \in Variants, j \in Variants :
          result' = [(IF CloserNeedsFallback(result, confidence_threshold)
                      THEN CloserGenerateWithTemplate(request, i, j)
                      ELSE result)
                     EXCEPT !.next_steps = GenerateNextSteps(request),
                            !.needs_followup = NeedsFollowup(request)]
    /\ gpc' = "done"
    /\ UNCHANGED <<gateObject, composerConfig, closerConfig, request, limited_request, retry,
                   nCalls, availAnswer>>
    /\ UNCHANGED otherThanGate

\* the caller has taken the returned value, or what was thrown
CloserReturn ==
    /\ crew = "closer" /\ gpc \in {"done", "threw"}
    /\ LeaveGateCall
    /\ UNCHANGED <<gateObject, composerConfig, closerConfig>>
    /\ UNCHANGED otherThanGate

NextGate ==
    \/ \E t \in Thresholds : SetQualityThreshold(t)
    \/ \E n \in 0..MaxRetriesCap : SetMaxRetries(n)
    \/ \E missing \in TargetLists : ComposeQuestion(missing)
    \/ ComposerCheckAvailable
    \/ ComposerFirstCall
    \/ ComposerRetryCall
    \/ ComposerFallback
    \/ ComposerReturn
    \/ \E t \in Thresholds : SetConfidenceThreshold(t)
    \/ \E n \in 0..MaxRetriesCap : CloserSetMaxRetries(n)
    \/ \E entities \in ClosingRequests : GenerateClosing(entities)
    \/ CloserCheckAvailable
    \/ CloserFirstCall
    \/ CloserRetryCall
    \/ CloserFallback
    \/ CloserReturn

SpecGate == InitGate /\ [][NextGate]_vars

TemplateMethods == {"template", "template_fallback"}

\* the generator was not usable in the call that has returned: none was
\* configured, or isAvailable() answered false
GeneratorUnavailable == ~llm_interface \/ availAnswer = "no"

\* C6: when no generator is configured or isAvailable() reports false, the value
\* composeQuestion / generateClosing returns is valid and its method is template
\* or template_fallback, whatever the list of target slots.
C6_FallbackGuarantee ==
    (gpc = "done" /\ GeneratorUnavailable) =>
        (result.is_valid /\ result.generation_method \in TemplateMethods)

\* composeQuestion returned for an unknown slot name while isAvailable() was false
C6_Witness ==
    /\ gpc = "done" /\ crew = "composer" /\ availAnswer = "no"
    /\ request = <<UnknownSlot>>
    /\ result.generation_method = "template_fallback"

\* C7: if the generator raises a fault on every call made to it, isAvailable
\* included, the call still returns a valid template outcome and no fault
\* leaves composeQuestion / generateClosing.
C7_AllFaultsStillTemplate ==
    (availAnswer = "throw") =>
        (gpc = "done" /\ result.is_valid /\ result.generation_method \in TemplateMethods)

\* the quality (or confidence) of a returned outcome, and the threshold it met
ReturnedQuality ==
    IF crew = "composer" THEN result.quality_score ELSE result.confidence_score

GateThreshold == IF crew = "composer" THEN quality_threshold ELSE confidence_threshold

\* C8: whatever the generator did on the first call and on each retry, the
\* returned outcome is valid, and it carries the primary generator's method only
\* if its quality is at or above the threshold; otherwise it is a template outcome.
C8_GateOutput ==
    gpc = "done" =>
        /\ result.is_valid
        /\ \/ result.generation_method = "llm_primary" /\ ReturnedQuality >= GateThreshold
           \/ result.generation_method \in TemplateMethods

\* a retry's text replaced a first text that was below the threshold, and was returned
C8_Witness ==
    /\ gpc = "done" /\ nCalls >= 2
    /\ result.generation_method = "llm_primary"
    /\ ReturnedQuality >= GateThreshold

-----------------------------------------------------------------------------
(* SpecPool: ComposerCrew's worker pool.  Worker threads, a control thread   *)
(* that calls startWorkers / stopWorkers / adjustThreadCount, and callers of *)
(* composeQuestionAsync.  A block under queue_mutex is one step; a wait on   *)
(* queue_condition with its predicate is a step enabled when the predicate   *)
(* holds.  The task body (composeQuestion and promise->set_value) is a step  *)
(* of its worker and always returns.                                         *)

otherThanPool == <<esmVars, concVars, gateVars, laterVars>>

\* most threads worker_threads holds in the model
MaxVector == 2 * MaxThreads

Workers == 1..MaxVector

\* a thread just created by emplace_back: at the top of workerLoop
NewWorker == [pc |-> "wait", task |-> 0]

\* the constructor has run with num_threads in 1..MaxThreads
InitPool ==
    /\ InitEsm /\ InitConcIdle
    /\ crew = "composer" /\ llm_interface = FALSE /\ InitGateIdle
    /\ InitPoolIdle
    /\ \E n \in 1..MaxThreads : InitPoolThreads(n)
    /\ InitLaterIdle

\* the tasks in task_queue or being run by a worker
PendingTasks == {t \in 1..MaxTasks : promise[t] = "pending"}

\* the predicate of queue_condition.wait
WaitPredicate == task_queue # <<>> \/ stop_workers

\* faulty variant: the worker takes the task pushed last
TakeBack(q) == [task |-> q[Len(q)], rest |-> SubSeq(q, 1, Len(q) - 1)]

\* "task = std::move(task_queue.front()); task_queue.pop();"
TakeFront(q) == [task |-> Head(q), rest |-> Tail(q)]

\* workerLoop, the block under queue_mutex: leave the loop, or take the front task
WorkerTake(i) ==
    /\ i \in DOMAIN worker_threads
    /\ worker_threads[i].pc = "wait"
    /\ WaitPredicate
    /\ IF stop_workers /\ task_queue = <<>>
       THEN /\ worker_threads' = [worker_threads EXCEPT ![i].pc = "exited"]
            /\ UNCHANGED task_queue
       ELSE /\ worker_threads' = [worker_threads EXCEPT
                                      ![i] = [pc |-> "run", task |-> TakeFront(task_queue).task]]
            /\ task_queue' = TakeFront(task_queue).rest
    /\ UNCHANGED <<stop_workers, num_worker_threads, promise, execCount, cpc, cOp, cNew, cIdx,
                   resized, cPending>>
    /\ UNCHANGED otherThanPool

\* workerLoop, "task()": the task sets its promise; the worker loops
WorkerRun(i) ==
    /\ i \in DOMAIN worker_threads
    /\ worker_threads[i].pc = "run"
    /\ promise' = [promise EXCEPT ![worker_threads[i].task] = "fulfilled"]
    /\ execCount' = [execCount EXCEPT ![worker_threads[i].task] = @ + 1]
    /\ worker_threads' = [worker_threads EXCEPT ![i] = NewWorker]
    /\ UNCHANGED <<task_queue, stop_workers, num_worker_threads, cpc, cOp, cNew, cIdx, resized, cPending>>
    /\ UNCHANGED otherThanPool

\* composeQuestionAsync: push the task under queue_mutex, notify_one, return the future
ComposeQuestionAsync(t) ==
    /\ promise[t] = "unsubmitted"
    /\ \A u \in 1..(t - 1) : promise[u] # "unsubmitted"
    /\ promise' = [promise EXCEPT ![t] = "pending"]
    /\ task_queue' = Append(task_queue, t)
    /\ UNCHANGED <<worker_threads, stop_workers, num_worker_threads, execCount, cpc, cOp, cNew,
                   cIdx, resized, cPending>>
    /\ UNCHANGED otherThanPool

\* the control thread calls startWorkers()
CallStartWorkers ==
    /\ cpc = "idle"
    /\ Len(worker_threads) + num_worker_threads <= MaxVector
    /\ cOp' = "startWorkers"
    /\ cIdx' = 0
    /\ cpc' = "start"
    /\ resized' = FALSE
    /\ UNCHANGED cPending
    /\ UNCHANGED <<worker_threads, task_queue, stop_workers, num_worker_threads, promise,
                   execCount, cNew>>
    /\ UNCHANGED otherThanPool

\* the control thread calls stopWorkers()
CallStopWorkers ==
    /\ cpc = "idle"
    /\ cOp' = "stopWorkers"
    /\ cpc' = "flag"
    /\ resized' = FALSE
    /\ cPending' = PendingTasks
    /\ UNCHANGED <<worker_threads, task_queue, stop_workers, num_worker_threads, promise,
                   execCount, cNew, cIdx>>
    /\ UNCHANGED otherThanPool

\* the control thread calls adjustThreadCount(new_count); an equal count returns at once
CallAdjustThreadCount(new_count) ==
    /\ cpc = "idle"
    /\ cOp' = "adjustThreadCount"
    /\ cNew' = new_count
    /\ cpc' = IF new_count # num_worker_threads THEN "flag" ELSE "idle"
    /\ resized' = FALSE
    /\ cPending' = IF new_count # num_worker_threads THEN PendingTasks ELSE cPending
    /\ UNCHANGED <<worker_threads, task_queue, stop_workers, num_worker_threads, promise,
                   execCount, cIdx>>
    /\ UNCHANGED otherThanPool

\* stopWorkers: "stop_workers = true" under queue_mutex, then notify_all
StopSetFlag ==
    /\ cpc = "flag"
    /\ stop_workers' = TRUE
    /\ cIdx' = 1
    /\ cpc' = "join"
    /\ UNCHANGED <<worker_threads, task_queue, num_worker_threads, promise, execCount, cOp,
                   cNew, resized, cPending>>
    /\ UNCHANGED otherThanPool

\* stopWorkers: thread.join() returns once that thread has left workerLoop
StopJoin ==
    /\ cpc = "join"
    /\ cIdx <= Len(worker_threads)
    /\ worker_threads[cIdx].pc = "exited"
    /\ cIdx' = cIdx + 1
    /\ UNCHANGED <<worker_threads, task_queue, stop_workers, num_worker_threads, promise,
                   execCount, cpc, cOp, cNew, resized, cPending>>
    /\ UNCHANGED otherThanPool

\* stopWorkers: worker_threads.clear() and return; adjustThreadCount goes on
\* with "num_worker_threads = new_count".  stop_workers is left as it is.
StopClear ==
    /\ cpc = "join"
    /\ cIdx > Len(worker_threads)
    /\ worker_threads' = <<>>
    /\ cIdx' = 0
    /\ IF cOp = "adjustThreadCount"
       THEN /\ num_worker_threads' = cNew
            /\ cpc' = "start"
       ELSE /\ UNCHANGED num_worker_threads
            /\ cpc' = "idle"
    /\ UNCHANGED <<task_queue, stop_workers, promise, execCount, cOp, cNew, resized, cPending>>
    /\ UNCHANGED otherThanPool

\* startWorkers: one iteration of the loop, emplace_back of a thread in workerLoop
StartOne ==
    /\ cpc = "start"
    /\ cIdx < num_worker_threads
    /\ worker_threads' = Append(worker_threads, NewWorker)
    /\ cIdx' = cIdx + 1
    /\ UNCHANGED <<task_queue, stop_workers, num_worker_threads, promise, execCount, cpc, cOp,
                   cNew, resized, cPending>>
    /\ UNCHANGED otherThanPool

\* startWorkers returns, and with it adjustThreadCount
StartDone ==
    /\ cpc = "start"
    /\ cIdx >= num_worker_threads
    /\ cpc' = "idle"
    /\ resized' = (cOp = "adjustThreadCount")
    /\ UNCHANGED cPending
    /\ UNCHANGED <<worker_threads, task_queue, stop_workers, num_worker_threads, promise,
                   execCount, cOp, cNew, cIdx>>
    /\ UNCHANGED otherThanPool

NextPool ==
    \/ \E i \in Workers : WorkerTake(i)
    \/ \E i \in Workers : WorkerRun(i)
    \/ \E t \in 1..MaxTasks : ComposeQuestionAsync(t)
    \/ CallStartWorkers
    \/ CallStopWorkers
    \/ \E n \in 0..MaxThreads : CallAdjustThreadCount(n)
    \/ StopSetFlag
    \/ StopJoin
    \/ StopClear
    \/ StartOne
    \/ StartDone

SpecPool == InitPool /\ [][NextPool]_vars

\* the scheduler: a thread that can take a step is not held back for ever.  Calls
\* into the pool (the Call... actions and composeQuestionAsync) need not happen.
PoolFairness ==
    /\ \A i \in Workers : WF_vars(WorkerTake(i)) /\ WF_vars(WorkerRun(i))
    /\ WF_vars(StopSetFlag) /\ WF_vars(StopJoin) /\ WF_vars(StopClear)
    /\ WF_vars(StartOne) /\ WF_vars(StartDone)

FairSpecPool == InitPool /\ [][NextPool]_vars /\ PoolFairness

\* C9: every task submitted through composeQuestionAsync is run by a worker
\* exactly once and its future is fulfilled, in every reachable state of the
\* pool, also after stopWorkers or adjustThreadCount.
C9_EveryTaskRunsOnce ==
    /\ [](\A t \in 1..MaxTasks : execCount[t] <= 1)
    /\ \A t \in 1..MaxTasks : (promise[t] = "pending") ~> (promise[t] = "fulfilled")

\* workers that have not left workerLoop
LiveWorkers == {i \in DOMAIN worker_threads : worker_threads[i].pc # "exited"}

\* C10: once adjustThreadCount(n) with n >= 1 has returned, the pool has exactly
\* n workers, none of which has left workerLoop.
C10_ResizeLeavesLiveWorkers ==
    (cpc = "idle" /\ resized /\ num_worker_threads >= 1) =>
        (Len(worker_threads) = num_worker_threads /\ Cardinality(LiveWorkers) = num_worker_threads)

\* task t is in the queue q
InQueue(t, q) == \E k \in 1..Len(q) : q[k] = t

\* the step in which stopWorkers returns (worker_threads.clear() was its last statement)
StopWorkersReturns == cpc = "join" /\ cpc' # "join"

\* C11: stopWorkers (and so adjustThreadCount) returns only after every task that
\* was queued or in flight when it was called has run to completion and every
\* worker has terminated; a worker terminates only when the stop flag is set and
\* the queue is empty; no queued task leaves the queue other than to be run.
C11_StopDrains ==
    /\ [][StopWorkersReturns =>
            /\ \A t \in cPending : promise[t] = "fulfilled"
            /\ \A i \in DOMAIN worker_threads : worker_threads[i].pc = "exited"]_vars
    /\ [][\A i \in DOMAIN worker_threads :
            (/\ i \in DOMAIN worker_threads'
             /\ worker_threads[i].pc # "exited"
             /\ worker_threads'[i].pc = "exited") => (stop_workers /\ task_queue = <<>>)]_vars
    /\ [][\A t \in 1..MaxTasks :
            (InQueue(t, task_queue) /\ ~InQueue(t, task_queue')) =>
                \E i \in DOMAIN worker_threads' :
                    worker_threads'[i] = [pc |-> "run", task |-> t]]_vars

-----------------------------------------------------------------------------
(* SpecGroup: the planner called on every ordered list of distinct slots *)

otherThanGroup == <<esmVars, concVars, gateVars, poolVars, turnVars, sessionVars,
                    repeatVars, resizeVars, loadVars, moreVars>>

\* the ordered lists of distinct required slots, of every length
MissingLists ==
    {l \in UNION {[1..n -> SlotNames] : n \in 0..Len(required_entities)} :
        Cardinality(Range(l)) = Len(l)}

\* a caller passes a list of missing slots
CallGroupEntities(missing) ==
    /\ missing_entities' = missing
    /\ groups' = <<>>
    /\ grouped' = FALSE
    /\ UNCHANGED otherThanGroup

\* groupEntitiesForComposition returns
GroupEntitiesReturn ==
    /\ ~grouped
    /\ groups' = GroupEntitiesForComposition(missing_entities)
    /\ grouped' = TRUE
    /\ UNCHANGED missing_entities
    /\ UNCHANGED otherThanGroup

NextGroup ==
    \/ \E missing \in MissingLists : CallGroupEntities(missing)
    \/ GroupEntitiesReturn

SpecGroup == Init /\ [][NextGroup]_vars

\* the symmetric affinity table of the reference algorithm
AffinityTable ==
    {{"caller_name", "phone_number"}, {"day_preference", "time_preference"},
     {"service_type", "day_preference"}, {"service_type", "time_preference"}}

\* the slots of the groups before group j
GroupedBefore(G, j) == UNION {Range(G[i]) : i \in 1..(j - 1)}

\* the missing slots not yet grouped when group j is formed, in list order
Remaining(L, G, j) == SelectSeq(L, LAMBDA x : x \notin GroupedBefore(G, j))

\* the group the reference algorithm forms from the remaining slots R
ReferenceGroup(R) ==
    LET partners == {k \in 2..Len(R) : {R[1], R[k]} \in AffinityTable}
    IN IF partners = {} THEN <<R[1]>>
       ELSE <<R[1], R[CHOOSE k \in partners : \A j \in partners : k <= j]>>

\* C20: the groups partition the missing slots, every group has one or two
\* slots, each group's seed is the first slot not yet grouped, its partner (if
\* any) is the first remaining slot related to the seed in the symmetric
\* affinity table, and the groups appear in seed order.
C20_GroupMatchesReference ==
    grouped =>
        /\ \A x \in Range(missing_entities) :
              Cardinality({j \in 1..Len(groups) : x \in Range(groups[j])}) = 1
        /\ \A j \in 1..Len(groups) :
              /\ Len(groups[j]) \in {1, 2}
              /\ Cardinality(Range(groups[j])) = Len(groups[j])
              /\ Range(groups[j]) \subseteq Range(missing_entities)
              /\ Remaining(missing_entities, groups, j) # <<>>
              /\ groups[j] = ReferenceGroup(Remaining(missing_entities, groups, j))

\* a list in which the seed's partner comes after an unrelated slot and is listed
\* second in its pair of the table
C20_Witness ==
    /\ grouped
    /\ missing_entities = <<"time_preference", "caller_name", "service_type", "day_preference">>
    /\ groups = <<(<<"time_preference", "service_type">>), (<<"caller_name">>),
                  (<<"day_preference">>)>>

-----------------------------------------------------------------------------
(* SpecTurn: AdvancedSessionController::processInput, turn after turn on one *)
(* controller.  Three threads take part in a turn: the caller's thread, the  *)
(* std::async extraction task and the std::async composition task.  What     *)
(* the classifier detects, what the extractor finds and whether              *)
(* composeQuestion returns or throws are drawn freely.  A probe that faults   *)
(* inside the classifier or the extractor is caught there and reads as        *)
(* not detected / not found.                                                 *)

otherThanTurn == <<esmHist, concVars, gateVars, poolVars, groupVars, sessionVars,
                   repeatVars, resizeVars, loadVars, moreVars>>

\* the values the extractor can return for a slot
TurnValues ==
    [slot \in SlotNames |-> IF slot = "caller_name" THEN {"v1", "v2"} ELSE {"v1"}]

\* classification_results split by `detected`: both lists keep the classifier's order
DetectedLists ==
    {SelectSeq(required_entities, LAMBDA x : x \in S) : S \in SUBSET SlotNames}

\* faulty variant: found is set whatever the extracted text is
ExtractionResultAlwaysFound(entity_name, extracted) ==
    [entity_name |-> entity_name, found |-> TRUE, extracted_value |-> extracted]

\* ExtractionResult, as extractEntityAsync fills it: found iff the text is not empty
ExtractionResult(entity_name, extracted) ==
    [entity_name |-> entity_name, found |-> (extracted # ""), extracted_value |-> extracted]

\* what extractWithFallback can return for the targets: one result per target, in order
ExtractionOutcomes(targets) ==
    {[k \in 1..Len(targets) |-> ExtractionResult(targets[k], f[k])] :
        f \in {g \in [1..Len(targets) -> {"", "v1", "v2"}] :
                  \A k \in 1..Len(targets) : g[k] \in {""} \cup TurnValues[targets[k]]}}

\* composeQuestion returns a result; with a generator configured it can also
\* throw what isAvailable() throws
ComposeQuestionOutcomes == IF llm_interface THEN {"returned", "threw"} ELSE {"returned"}

\* faulty variant: the loop over extraction_results stops after the first result
ApplyDoneAfterFirst(idx, results) == idx > Len(results) \/ idx > 1

\* "for (const auto& ext_result : extraction_results)" has ended
ApplyDone(idx, results) == idx > Len(results)

InitTurn ==
    /\ InitEsm /\ InitConcIdle
    /\ crew = "composer" /\ llm_interface \in BOOLEAN /\ InitGateIdle
    /\ InitPoolIdle /\ InitPoolThreads(1)
    /\ InitLaterIdle

\* processInput is entered; classifyAllEntities is called
ProcessInput ==
    /\ tpc = "idle"
    /\ tpc' = "classifying"
    /\ startState' = entity_values
    /\ UNCHANGED <<detected_entities, undetected_entities, should_compose, etask,
                   extraction_results, aIdx, ctask, comp_request, composition_triggered,
                   closing_triggered, closing_complete>>
    /\ UNCHANGED <<entity_values, otherThanTurn>>

\* classifyAllEntities returns; the results are split into detected and missing
ClassifyReturn ==
    /\ tpc = "classifying"
    /\ \E detected \in DetectedLists :
          /\ detected_entities' = detected
          /\ undetected_entities' =
                SelectSeq(required_entities, LAMBDA x : x \notin Range(detected))
    /\ tpc' = "fanout"
    /\ UNCHANGED <<should_compose, etask, extraction_results, aIdx, ctask, comp_request,
                   composition_triggered, closing_triggered, startState, closing_complete>>
    /\ UNCHANGED <<entity_values, otherThanTurn>>

\* the two std::async launches, with should_compose computed between them
FanOut ==
    /\ tpc = "fanout"
    /\ etask' = IF detected_entities # <<>> THEN "running" ELSE "none"
    /\ should_compose' = (undetected_entities # <<>> /\ ~IsComplete(entity_values))
    /\ ctask' = IF should_compose' THEN "start" ELSE "none"
    /\ tpc' = "fanin"
    /\ UNCHANGED <<detected_entities, undetected_entities, extraction_results, aIdx,
                   comp_request, composition_triggered, closing_triggered, startState,
                   closing_complete>>
    /\ UNCHANGED <<entity_values, otherThanTurn>>

\* the extraction task: extractWithFallback returns
ExtractionTask ==
    /\ etask = "running"
    /\ \E results \in ExtractionOutcomes(detected_entities) : extraction_results' = results
    /\ etask' = "done"
    /\ UNCHANGED <<tpc, detected_entities, undetected_entities, should_compose, aIdx, ctask,
                   comp_request, composition_triggered, closing_triggered, startState,
                   closing_complete>>
    /\ UNCHANGED <<entity_values, otherThanTurn>>

\* the composition task: the first group and getKnownEntities() make the request
CompositionBuildRequest ==
    /\ ctask = "start"
    /\ LET entity_groups == GroupEntitiesForComposition(undetected_entities)
       IN IF entity_groups # <<>>
          THEN /\ comp_request' = [missing_entities |-> entity_groups[1],
                                   known_entities |-> GetKnownEntities(entity_values)]
               /\ ctask' = "compose"
          ELSE /\ UNCHANGED comp_request
               /\ ctask' = "done"
    /\ UNCHANGED <<tpc, detected_entities, undetected_entities, should_compose, etask,
                   extraction_results, aIdx, composition_triggered, closing_triggered,
                   startState, closing_complete>>
    /\ UNCHANGED <<entity_values, otherThanTurn>>

\* the composition task: composeQuestion returns, or throws into the future
CompositionCompose ==
    /\ ctask = "compose"
    /\ \E outcome \in ComposeQuestionOutcomes :
          IF outcome = "returned"
          THEN /\ composition_triggered' = TRUE
               /\ ctask' = "done"
          ELSE /\ UNCHANGED composition_triggered
               /\ ctask' = "threw"
    /\ UNCHANGED <<tpc, detected_entities, undetected_entities, should_compose, etask,
                   extraction_results, aIdx, comp_request, closing_triggered, startState,
                   closing_complete>>
    /\ UNCHANGED <<entity_values, otherThanTurn>>

\* "extraction_results = extraction_future.get()", skipped when nothing was detected
ExtractionGet ==
    /\ tpc = "fanin"
    /\ detected_entities = <<>> \/ etask = "done"
    /\ aIdx' = 1
    /\ tpc' = "apply"
    /\ UNCHANGED <<detected_entities, undetected_entities, should_compose, etask,
                   extraction_results, ctask, comp_request, composition_triggered,
                   closing_triggered, startState, closing_complete>>
    /\ UNCHANGED <<entity_values, otherThanTurn>>

\* one iteration of the loop: updateEntity for a found result
ApplyOne ==
    /\ tpc = "apply"
    /\ ~ApplyDone(aIdx, extraction_results)
    /\ LET ext_result == extraction_results[aIdx]
       IN entity_values' =
            IF ext_result.found
            THEN ApplyUpdate(entity_values, ext_result.entity_name, ext_result.extracted_value)
            ELSE entity_values
    /\ aIdx' = aIdx + 1
    /\ UNCHANGED <<tpc, detected_entities, undetected_entities, should_compose, etask,
                   extraction_results, ctask, comp_request, composition_triggered,
                   closing_triggered, startState, closing_complete>>
    /\ UNCHANGED otherThanTurn

\* the loop has ended
ApplyEnd ==
    /\ tpc = "apply"
    /\ ApplyDone(aIdx, extraction_results)
    /\ tpc' = "join"
    /\ UNCHANGED <<detected_entities, undetected_entities, should_compose, etask,
                   extraction_results, aIdx, ctask, comp_request, composition_triggered,
                   closing_triggered, startState, closing_complete>>
    /\ UNCHANGED <<entity_values, otherThanTurn>>

\* "result.composition_result = composition_future.get()": get() rethrows what
\* the task threw, and processInput has no handler
JoinComposition ==
    /\ tpc = "join"
    /\ IF should_compose
       THEN /\ ctask \in {"done", "threw"}
            /\ IF ctask = "threw"
               THEN /\ tpc' = "threw"
                    /\ UNCHANGED composition_triggered
               ELSE /\ tpc' = "closing"
                    /\ composition_triggered' = TRUE
       ELSE /\ tpc' = "closing"
            /\ UNCHANGED composition_triggered
    /\ UNCHANGED <<detected_entities, undetected_entities, should_compose, etask,
                   extraction_results, aIdx, ctask, comp_request, closing_triggered,
                   startState, closing_complete>>
    /\ UNCHANGED <<entity_values, otherThanTurn>>

\* "if (entity_manager->isComplete())": the block builds a ClosingRequest; the
\* call of the closer and "closing_triggered = true" are commented out
ClosingCheck ==
    /\ tpc = "closing"
    /\ closing_complete' = IsComplete(entity_values)
    /\ UNCHANGED closing_triggered
    /\ tpc' = "done"
    /\ UNCHANGED <<detected_entities, undetected_entities, should_compose, etask,
                   extraction_results, aIdx, ctask, comp_request, composition_triggered,
                   startState>>
    /\ UNCHANGED <<entity_values, otherThanTurn>>

\* the caller has the ProcessingResult, or the exception
TurnReturn ==
    /\ tpc \in {"done", "threw"}
    /\ tpc' = "idle"
    /\ detected_entities' = <<>>
    /\ undetected_entities' = <<>>
    /\ should_compose' = FALSE
    /\ etask' = "none"
    /\ extraction_results' = <<>>
    /\ aIdx' = 0
    /\ ctask' = "none"
    /\ comp_request' = NoRequest
    /\ composition_triggered' = FALSE
    /\ closing_triggered' = FALSE
    /\ startState' = EmptyMap
    /\ closing_complete' = FALSE
    /\ UNCHANGED <<entity_values, otherThanTurn>>

NextTurn ==
    \/ ProcessInput
    \/ ClassifyReturn
    \/ FanOut
    \/ ExtractionTask
    \/ CompositionBuildRequest
    \/ CompositionCompose
    \/ ExtractionGet
    \/ ApplyOne
    \/ ApplyEnd
    \/ JoinComposition
    \/ ClosingCheck
    \/ TurnReturn

SpecTurn == InitTurn /\ [][NextTurn]_vars

\* C12: the per-turn pipeline never propagates a fault to its caller: whatever
\* the classifier, the extractor or the composer raise, processInput returns a
\* result.  Here: the turn never ends by throwing.
C12_NoFaultEscapes == tpc # "threw"

\* C13: scenario B.  When every required slot is known at the start of the
\* turn, the returned result has composition_triggered = false and
\* closing_triggered = true.
C13_ScenarioB ==
    (tpc = "done" /\ IsComplete(startState))
        => (~composition_triggered /\ closing_triggered)

\* the composition task has built its CompositionRequest
RequestBuilt == ctask \in {"compose", "threw"} \/ (ctask = "done" /\ comp_request # NoRequest)

\* C14: the slots the composition request asks for are all missing from the
\* session state at the start of the turn: no question is composed for a slot
\* that an earlier turn has filled.
C14_TargetsMissingAtStart ==
    RequestBuilt => \A x \in Range(comp_request.missing_entities) : ~HasEntity(startState, x)

\* C15: in every interleaving the known-slot map given to the composition
\* request equals the session state at the start of the turn; it never holds a
\* value applied by this turn's extraction.
C15_KnownIsTurnStartSnapshot ==
    RequestBuilt => comp_request.known_entities = GetKnownEntities(startState)

\* the state after every found value of `results` has been applied to m, in order
RECURSIVE AllFoundApplied(_, _)
AllFoundApplied(m, results) ==
    IF results = <<>>
    THEN m
    ELSE LET r == Head(results)
         IN AllFoundApplied(IF r.found THEN ApplyUpdate(m, r.entity_name, r.extracted_value)
                                       ELSE m,
                            Tail(results))

\* the steps of the caller through the stages of one turn
StageSteps ==
    {<<"idle", "classifying">>, <<"classifying", "fanout">>, <<"fanout", "fanin">>,
     <<"fanin", "apply">>, <<"apply", "join">>, <<"join", "closing">>,
     <<"join", "threw">>, <<"closing", "done">>, <<"done", "idle">>, <<"threw", "idle">>}

\* C16: the stages of a turn come in the order classification, extraction and
\* composition, closing check, done; no extraction or composition task exists
\* before classification has returned; and the completeness check that decides
\* closing reads the state after every found value has been applied and the
\* composition result has been joined.
C16_StageOrder ==
    /\ [][tpc' # tpc => <<tpc, tpc'>> \in StageSteps]_vars
    /\ [](tpc \in {"idle", "classifying", "fanout"} => (etask = "none" /\ ctask = "none"))
    /\ [](tpc \in {"closing", "done"} =>
            /\ entity_values = AllFoundApplied(startState, extraction_results)
            /\ etask \in {"none", "done"}
            /\ ctask \in {"none", "done"})
    /\ [](tpc = "done" =>
            closing_complete = IsComplete(AllFoundApplied(startState, extraction_results)))

\* a finished turn that applied two found values and joined a composition
C16_Witness ==
    /\ tpc = "done"
    /\ ctask = "done"
    /\ closing_complete
    /\ Cardinality({k \in 1..Len(extraction_results) : extraction_results[k].found}) >= 2
    /\ Cardinality(DOMAIN GetKnownEntities(startState)) = 3

-----------------------------------------------------------------------------
(***************************************************************************)
(* SpecSession: SessionController (advanced_session_controller.cpp) with   *)
(* its EntityStateManager (SessionController.h), and the handlers of the   *)
(* session router (session-router.cpp).  Two threads issue calls.  In mode *)
(* "direct" they call one SessionController; in mode "router" they call    *)
(* the handlers, which keep one SessionController per session id: each     *)
(* controller only ever stores its own id, so sessions_ and                *)
(* active_sessions_ hold the stores of all controllers side by side, and   *)
(* controller_mutex_, which is only taken inside sessions_mutex_ there,    *)
(* stands for the mutex of the controller in use.                          *)
(***************************************************************************)

otherThanSession == <<esmVars, concVars, gateVars, poolVars, groupVars, turnVars,
                      repeatVars, resizeVars, loadVars, moreVars>>

\* m[k] = v of an unordered_map
MapSet(m, k, v) == [x \in DOMAIN m \cup {k} |-> IF x = k THEN v ELSE m[x]]

\* m.erase(k)
MapErase(m, k) == [x \in DOMAIN m \ {k} |-> m[x]]

GetEmptyEntities(c) == SelectSeq(ConfigFields, LAMBDA f : c[f] = "")

\* ConfigModel::set_entity: an unknown name changes nothing
SetEntity(c, entity_name, value) ==
    IF entity_name \in DOMAIN c THEN [c EXCEPT ![entity_name] = value] ELSE c

\* update_session's conversion of a field name to the crews' slot name
CppEntity(entity) ==
    CASE entity = "name" -> "caller_name"
      [] entity = "phone" -> "phone_number"
      [] entity = "day" -> "day_preference"
      [] entity = "time" -> "time_preference"
      [] entity = "service" -> "service_type"
      [] OTHER -> entity

\* and back
SimpleEntity(entity_name) ==
    CASE entity_name = "caller_name" -> "name"
      [] entity_name = "phone_number" -> "phone"
      [] entity_name = "day_preference" -> "day"
      [] entity_name = "time_preference" -> "time"
      [] entity_name = "service_type" -> "service"
      [] OTHER -> entity_name

\* EntityStateManager::get_session: the stored ConfigModel, or an empty one
StoredSession(s, session_id) ==
    IF session_id \in DOMAIN s THEN s[session_id] ELSE ConfigModel

\* faulty variant: an id that is not in the map counts as active
IsSessionActiveUnlessFalse(a, session_id) == session_id \notin DOMAIN a \/ a[session_id]

\* EntityStateManager::is_session_active
IsSessionActive(a, session_id) == session_id \in DOMAIN a /\ a[session_id]

\* the results of the operations
Greeting == [status |-> 0, response |-> "greeting", session_active |-> TRUE]
NotActive == [status |-> 0, response |-> "Session not active.", session_active |-> FALSE]
ProcessingError ==
    [status |-> 0, response |-> "Error processing input.", session_active |-> TRUE]
HttpError(code) == [status |-> code, response |-> "", session_active |-> FALSE]

\* "Check if complete": the response of update_session
UpdateResponse(c) ==
    IF GetEmptyEntities(c) = <<>>
    THEN "Perfect! I have all your information."
    ELSE "Thank you for that information."

\* get_session's response for an active session
GetResponse(c) ==
    IF GetEmptyEntities(c) # <<>>
    THEN "Here's your current information:"
    ELSE "Your information is complete!"

\* faulty variant: every detected slot is extracted, missing or not
EntitiesToExtractAllDetected(missing, detected) ==
    LET wanted == SelectSeq(ConfigFields, LAMBDA entity : CppEntity(entity) \in Range(detected))
    IN [k \in 1..Len(wanted) |-> CppEntity(wanted[k])]

\* "Find entities to extract": the missing fields the classifier detected
EntitiesToExtract(missing, detected) ==
    LET wanted == SelectSeq(missing, LAMBDA entity : CppEntity(entity) \in Range(detected))
    IN [k \in 1..Len(wanted) |-> CppEntity(wanted[k])]

\* "Update entities with results": found, non-empty values are set, in order
RECURSIVE SetFound(_, _)
SetFound(c, results) ==
    IF results = <<>>
    THEN c
    ELSE LET ext_result == Head(results)
         IN SetFound(IF ext_result.found /\ ext_result.extracted_value # ""
                     THEN SetEntity(c, SimpleEntity(ext_result.entity_name),
                                    ext_result.extracted_value)
                     ELSE c,
                     Tail(results))

InitSession ==
    /\ InitEsm /\ InitConcIdle
    /\ crew = "composer" /\ llm_interface = FALSE /\ InitGateIdle
    /\ InitPoolIdle /\ InitPoolThreads(1)
    /\ InitGroupIdle /\ InitTurnIdle /\ InitRepeatIdle /\ InitResizeIdle /\ InitLoadIdle
    /\ InitMoreIdle
    /\ mode \in {"direct", "router"}
    /\ InitSessionObjects

\* thread t is in operation op on session_id, at position pc
InCall(t, pc, op, session_id) == [NoCall EXCEPT !.pc = pc, !.op = op, !.id = session_id]

\* thread t is at the return of its call: the result is built, the lock_guard
\* of the call is still alive
AtReturn(t, r) ==
    [calls[t] EXCEPT !.pc = "ret", !.result = r, !.entities_to_extract = <<>>]

\* the body of SessionController::create_session, under controller_mutex_
DoCreateSession(session_id) ==
    /\ sessions_' = MapSet(MapSet(sessions_, session_id, ConfigModel),
                           session_id, ConfigModel)
    /\ active_sessions_' = MapSet(MapSet(active_sessions_, session_id, TRUE),
                                  session_id, TRUE)
    /\ ended' = ended \ {session_id}

\* the body of SessionController::get_session
GetSessionResult(session_id) ==
    IF ~IsSessionActive(active_sessions_, session_id)
    THEN [status |-> 0, response |-> "Session not active", session_active |-> FALSE]
    ELSE [status |-> 0, response |-> GetResponse(StoredSession(sessions_, session_id)),
          session_active |-> TRUE]

\* the body of SessionController::end_session
DoEndSession(session_id) ==
    /\ sessions_' = MapErase(sessions_, session_id)
    /\ active_sessions_' = MapErase(active_sessions_, session_id)
    /\ ended' = IF session_id \in DOMAIN sessions_ THEN ended \cup {session_id} ELSE ended

EndSessionResult(session_id) ==
    [status |-> 0,
     response |-> IF IsSessionActive(active_sessions_, session_id)
                  THEN "Session ended successfully."
                  ELSE "Session was already inactive.",
     session_active |-> FALSE]

\* SessionController::create_session, called directly
CreateSession(t, session_id) ==
    /\ mode = "direct" /\ calls[t].pc = "idle"
    /\ controller_mutex_ = "free"
    /\ controller_mutex_' = t
    /\ DoCreateSession(session_id)
    /\ calls' = [calls EXCEPT ![t] = [InCall(t, "ret", "create", session_id)
                                        EXCEPT !.result = Greeting]]
    /\ UNCHANGED <<mode, http_sessions, http_mutex>>
    /\ UNCHANGED otherThanSession

\* SessionController::get_session, called directly
GetSession(t, session_id) ==
    /\ mode = "direct" /\ calls[t].pc = "idle"
    /\ controller_mutex_ = "free"
    /\ controller_mutex_' = t
    /\ calls' = [calls EXCEPT ![t] = [InCall(t, "ret", "get", session_id)
                                        EXCEPT !.result = GetSessionResult(session_id)]]
    /\ UNCHANGED <<mode, sessions_, active_sessions_, http_sessions, http_mutex, ended>>
    /\ UNCHANGED otherThanSession

\* SessionController::end_session, called directly
EndSession(t, session_id) ==
    /\ mode = "direct" /\ calls[t].pc = "idle"
    /\ controller_mutex_ = "free"
    /\ controller_mutex_' = t
    /\ DoEndSession(session_id)
    /\ calls' = [calls EXCEPT ![t] = [InCall(t, "ret", "end", session_id)
                                        EXCEPT !.result = EndSessionResult(session_id)]]
    /\ UNCHANGED <<mode, http_sessions, http_mutex>>
    /\ UNCHANGED otherThanSession

\* faulty variant: update_session reads the stored ConfigModel without taking
\* controller_mutex_
EnterUpdateSessionUnlocked(t, session_id) ==
    /\ calls' = [calls EXCEPT ![t] =
                    IF ~IsSessionActive(active_sessions_, session_id)
                    THEN [InCall(t, "ret", "update", session_id) EXCEPT !.result = NotActive]
                    ELSE [InCall(t, "classify", "update", session_id)
                            EXCEPT !.current_entities = StoredSession(sessions_, session_id)]]
    /\ UNCHANGED <<mode, sessions_, active_sessions_, http_sessions, controller_mutex_,
                   ended>>
    /\ UNCHANGED otherThanSession

\* SessionController::update_session up to the call of the classifier: the lock,
\* the check of the active flag, the read of the stored ConfigModel
EnterUpdateSession(t, session_id) ==
    /\ controller_mutex_ = "free"
    /\ controller_mutex_' = t
    /\ calls' = [calls EXCEPT ![t] =
                    IF ~IsSessionActive(active_sessions_, session_id)
                    THEN [InCall(t, "ret", "update", session_id) EXCEPT !.result = NotActive]
                    ELSE [InCall(t, "classify", "update", session_id)
                            EXCEPT !.current_entities = StoredSession(sessions_, session_id)]]
    /\ UNCHANGED <<mode, sessions_, active_sessions_, http_sessions, ended>>
    /\ UNCHANGED otherThanSession

\* SessionController::update_session, called directly
UpdateSession(t, session_id) ==
    /\ mode = "direct" /\ calls[t].pc = "idle"
    /\ EnterUpdateSession(t, session_id)
    /\ UNCHANGED http_mutex

\* history: the call filled a field of a session in which another field was known
FilledBesideKnown(before, after) ==
    /\ \E f \in DOMAIN before : before[f] # ""
    /\ \E f \in DOMAIN before : before[f] = "" /\ after[f] # ""

\* the end of update_session's try block: the ConfigModel is stored
StoreAndReturn(t, c) ==
    /\ sessions_' = MapSet(sessions_, calls[t].id, c)
    /\ calls' = [calls EXCEPT ![t] = [AtReturn(t, [status |-> 0,
                                                   response |-> UpdateResponse(c),
                                                   session_active |-> TRUE])
                                        EXCEPT !.current_entities = c,
                                               !.filled_beside_known =
                                                   FilledBesideKnown(calls[t].current_entities,
                                                                     c)]]
    /\ UNCHANGED <<mode, active_sessions_, http_sessions, controller_mutex_, http_mutex,
                   ended>>
    /\ UNCHANGED otherThanSession

\* faulty variant: the handler stores an empty ConfigModel for the session
CatchAndReturnStoring(t) ==
    /\ sessions_' = MapSet(sessions_, calls[t].id, ConfigModel)
    /\ calls' = [calls EXCEPT ![t] = AtReturn(t, ProcessingError)]
    /\ UNCHANGED <<mode, active_sessions_, http_sessions, controller_mutex_, http_mutex,
                   ended>>
    /\ UNCHANGED otherThanSession

\* "catch (const std::exception& e)" of update_session
CatchAndReturn(t) ==
    /\ calls' = [calls EXCEPT ![t] = AtReturn(t, ProcessingError)]
    /\ UNCHANGED <<mode, sessions_, active_sessions_, http_sessions, controller_mutex_,
                   http_mutex, ended>>
    /\ UNCHANGED otherThanSession

\* classifier_->getDetectedEntities returns or throws
ClassifierReturn(t) ==
    /\ calls[t].pc = "classify"
    /\ \/ CatchAndReturn(t)
       \/ \E entities_to_extract \in
                {EntitiesToExtract(GetEmptyEntities(calls[t].current_entities), detected) :
                    detected \in DetectedLists} :
               IF entities_to_extract # <<>>
               THEN /\ calls' = [calls EXCEPT ![t].pc = "extract",
                                              ![t].entities_to_extract = entities_to_extract]
                    /\ UNCHANGED <<mode, sessions_, active_sessions_, http_sessions,
                                   controller_mutex_, http_mutex, ended>>
                    /\ UNCHANGED otherThanSession
               ELSE StoreAndReturn(t, calls[t].current_entities)

\* extractor_->extractEntities returns or throws
ExtractorReturn(t) ==
    /\ calls[t].pc = "extract"
    /\ \/ CatchAndReturn(t)
       \/ \E results \in ExtractionOutcomes(calls[t].entities_to_extract) :
            StoreAndReturn(t, SetFound(calls[t].current_entities, results))

\* HTTPServer::handle_create_session (session_id is a non-blank id)
HandleCreateSession(t, session_id) ==
    /\ mode = "router" /\ calls[t].pc = "idle"
    /\ http_mutex = "free"
    /\ http_mutex' = t
    /\ IF session_id \in http_sessions
       THEN /\ calls' = [calls EXCEPT ![t] = [InCall(t, "ret", "create", session_id)
                                                EXCEPT !.result = HttpError(409)]]
            /\ UNCHANGED <<sessions_, active_sessions_, http_sessions, ended>>
       ELSE \E initialized \in BOOLEAN :
              IF ~initialized
              THEN /\ calls' = [calls EXCEPT ![t] = [InCall(t, "ret", "create", session_id)
                                                       EXCEPT !.result = HttpError(500)]]
                   /\ UNCHANGED <<sessions_, active_sessions_, http_sessions, ended>>
              ELSE /\ DoCreateSession(session_id)
                   /\ http_sessions' = http_sessions \cup {session_id}
                   /\ calls' = [calls EXCEPT
                                  ![t] = [InCall(t, "ret", "create", session_id)
                                            EXCEPT !.result = [Greeting EXCEPT !.status = 200]]]
    /\ UNCHANGED <<mode, controller_mutex_>>
    /\ UNCHANGED otherThanSession

\* HTTPServer::handle_update_session up to the call of the classifier
HandleUpdateSession(t, session_id, body) ==
    /\ mode = "router" /\ calls[t].pc = "idle"
    /\ http_mutex = "free"
    /\ http_mutex' = t
    /\ IF session_id \notin http_sessions \/ body # "ok"
       THEN /\ calls' = [calls EXCEPT
                           ![t] = [InCall(t, "ret", "update", session_id)
                                     EXCEPT !.result =
                                        HttpError(IF session_id \notin http_sessions
                                                  THEN 404 ELSE 400)]]
            /\ UNCHANGED <<mode, sessions_, active_sessions_, http_sessions,
                           controller_mutex_, ended>>
            /\ UNCHANGED otherThanSession
       ELSE EnterUpdateSession(t, session_id)

\* HTTPServer::handle_get_session
HandleGetSession(t, session_id) ==
    /\ mode = "router" /\ calls[t].pc = "idle"
    /\ http_mutex = "free"
    /\ http_mutex' = t
    /\ calls' = [calls EXCEPT
                   ![t] = [InCall(t, "ret", "get", session_id)
                             EXCEPT !.result =
                                IF session_id \notin http_sessions
                                THEN HttpError(404)
                                ELSE [GetSessionResult(session_id) EXCEPT !.status = 200]]]
    /\ UNCHANGED <<mode, sessions_, active_sessions_, http_sessions, controller_mutex_,
                   ended>>
    /\ UNCHANGED otherThanSession

\* HTTPServer::handle_end_session
HandleEndSession(t, session_id) ==
    /\ mode = "router" /\ calls[t].pc = "idle"
    /\ http_mutex = "free"
    /\ http_mutex' = t
    /\ IF session_id \notin http_sessions
       THEN /\ calls' = [calls EXCEPT ![t] = [InCall(t, "ret", "end", session_id)
                                                EXCEPT !.result = HttpError(404)]]
            /\ UNCHANGED <<sessions_, active_sessions_, http_sessions, ended>>
       ELSE /\ DoEndSession(session_id)
            /\ http_sessions' = http_sessions \ {session_id}
            /\ calls' = [calls EXCEPT
                           ![t] = [InCall(t, "ret", "end", session_id)
                                     EXCEPT !.result =
                                        [EndSessionResult(session_id) EXCEPT !.status = 200]]]
    /\ UNCHANGED <<mode, controller_mutex_>>
    /\ UNCHANGED otherThanSession

\* the call returns: its lock_guards are destroyed, the caller has the result
SessionReturn(t) ==
    /\ calls[t].pc = "ret"
    /\ calls' = [calls EXCEPT ![t] = NoCall]
    /\ controller_mutex_' = IF controller_mutex_ = t THEN "free" ELSE controller_mutex_
    /\ http_mutex' = IF http_mutex = t THEN "free" ELSE http_mutex
    /\ UNCHANGED <<mode, sessions_, active_sessions_, http_sessions, ended>>
    /\ UNCHANGED otherThanSession

NextSession ==
    \E t \in SessionThreads :
        \/ \E session_id \in SessionIds :
              \/ CreateSession(t, session_id)
              \/ GetSession(t, session_id)
              \/ EndSession(t, session_id)
              \/ UpdateSession(t, session_id)
              \/ HandleCreateSession(t, session_id)
              \/ \E body \in {"ok", "bad"} : HandleUpdateSession(t, session_id, body)
              \/ HandleGetSession(t, session_id)
              \/ HandleEndSession(t, session_id)
        \/ ClassifierReturn(t)
        \/ ExtractorReturn(t)
        \/ SessionReturn(t)

SpecSession == InitSession /\ [][NextSession]_vars

\* thread t enters update_session / handle_update_session in this step
UpdateCalled(t) == calls[t].pc = "idle" /\ calls'[t].pc # "idle" /\ calls'[t].op = "update"

\* the session-not-found outcomes of the controller and of the router
SessionNotFound == {NotActive, HttpError(404)}

\* C17: a turn for a session id that was never created, or that has been
\* ended, ends at once with the session-not-found outcome (the controller's
\* 'Session not active.' with session_active = false, the router's 404); the
\* classifier and the extractor are not called and no state is created for
\* the id.
C17_UnknownSessionFails ==
    /\ [][\A t \in SessionThreads :
            (UpdateCalled(t) /\ calls'[t].id \notin DOMAIN sessions_) =>
                /\ calls'[t].pc = "ret"
                /\ calls'[t].result \in SessionNotFound
                /\ sessions_' = sessions_
                /\ active_sessions_' = active_sessions_
                /\ http_sessions' = http_sessions]_vars
    /\ [](\A t \in SessionThreads :
            calls[t].pc \in {"classify", "extract"} =>
                /\ calls[t].id \in DOMAIN sessions_
                /\ IsSessionActive(active_sessions_, calls[t].id))

\* a turn on an ended session has returned the session-not-found outcome while
\* another session is stored
C17_Witness ==
    \E t \in SessionThreads :
        /\ calls[t].pc = "ret" /\ calls[t].op = "update"
        /\ calls[t].id \in ended
        /\ calls[t].result \in SessionNotFound
        /\ sessions_ # EmptyMap

\* thread t enters create_session / handle_create_session in this step
CreateCalled(t) == calls[t].pc = "idle" /\ calls'[t].pc # "idle" /\ calls'[t].op = "create"

\* C18: one session state per active id.  Creating a session under an id that
\* is already active leaves the slot values collected for that id as they
\* are, and after any sequence of operations an id is marked active iff it
\* has a stored state.
C18_OneStatePerActiveId ==
    /\ [][\A t \in SessionThreads :
            (CreateCalled(t) /\ IsSessionActive(active_sessions_, calls'[t].id)) =>
                /\ calls'[t].id \in DOMAIN sessions_'
                /\ sessions_'[calls'[t].id] = sessions_[calls'[t].id]]_vars
    /\ [](\A session_id \in SessionIds :
            IsSessionActive(active_sessions_, session_id) <=> session_id \in DOMAIN sessions_)

\* C19: no lock is held across an external call: while a classifier or
\* extractor call of a thread is in progress, that thread holds neither the
\* controller's mutex nor the router's.
C19_NoLockAcrossExternalCall ==
    \A t \in SessionThreads :
        calls[t].pc \in {"classify", "extract"} => (controller_mutex_ # t /\ http_mutex # t)

-----------------------------------------------------------------------------
(* Scenarios of the turn pipeline and of the generation gate *)

\* a finished turn that started on an empty session, in which only the name
\* was detected, and extracted with a non-empty value
ScenarioA ==
    /\ tpc = "done"
    /\ GetKnownEntities(startState) = EmptyMap
    /\ detected_entities = <<"caller_name">>
    /\ Len(extraction_results) = 1
    /\ extraction_results[1].found

\* C21: scenario A.  Starting from an empty session, a turn in which only the
\* name is detected and extracted ends with missing = [phone, day, time,
\* service] and an incomplete state, and the composition of that turn asks for
\* the group {phone} alone.
C21_ScenarioA ==
    ScenarioA =>
        /\ GetMissingEntities(entity_values) =
              <<"phone_number", "day_preference", "time_preference", "service_type">>
        /\ ~IsComplete(entity_values)
        /\ ~closing_complete
        /\ ctask = "done"
        /\ comp_request.missing_entities = <<"phone_number">>

C21_Witness == ScenarioA /\ composition_triggered /\ HasEntity(entity_values, "caller_name")

-----------------------------------------------------------------------------
(* SpecRepeat: a ComposerCrew whose generator is absent, or answers          *)
(* isAvailable() with false.  composeQuestion is called on a request, and    *)
(* called again on the same request; each call draws its own template        *)
(* variant.                                                                  *)

otherThanRepeat == <<esmVars, concVars, gateVars, poolVars, groupVars, turnVars, sessionVars,
                     resizeVars, loadVars, moreVars>>

\* results kept per request
MaxRepeats == 2

\* composeQuestion when no generator call is made: the request is limited, the
\* default result needs the fallback whatever the threshold, the template
\* result gets its targeted_entities
ComposeQuestionUnavailable(missing, variant) ==
    LET limited == LimitRequest(missing)
    IN [(IF NeedsFallback(DefaultResult, quality_threshold)
         THEN GenerateWithTemplate(limited, variant)
         ELSE DefaultResult)
        EXCEPT !.targeted_entities = limited]

\* the caller turns to a new request
NewRequest(missing) ==
    /\ repeat_request' = missing
    /\ repeat_results' = <<>>
    /\ UNCHANGED otherThanRepeat

\* one composeQuestion call on the request, from entry to return
ComposeAgain ==
    /\ Len(repeat_results) < MaxRepeats
    /\ \E variant \in Variants :
          repeat_results' =
              Append(repeat_results, ComposeQuestionUnavailable(repeat_request, variant))
    /\ UNCHANGED repeat_request
    /\ UNCHANGED otherThanRepeat

NextRepeat ==
    \/ \E missing \in TargetLists : NewRequest(missing)
    \/ ComposeAgain

SpecRepeat == Init /\ [][NextRepeat]_vars

\* C22: scenario D.  With the generator unavailable, two composeQuestion calls
\* with identical requests return the same quality and the same method; only
\* the text may differ with the template variant drawn.
C22_ScenarioD ==
    \A i, j \in 1..Len(repeat_results) :
        /\ repeat_results[i].quality_score = repeat_results[j].quality_score
        /\ repeat_results[i].generation_method = repeat_results[j].generation_method
        /\ repeat_results[i].is_valid

\* two calls on one request returned different texts
C22_Witness ==
    /\ Len(repeat_results) = 2
    /\ repeat_results[1].generated_question # repeat_results[2].generated_question
    /\ repeat_results[1].generation_method = "template"

\* C23: a validation failure in closing (a required field missing or empty, a
\* malformed name, phone, day or time) is recovered by the template fallback
\* and marked for follow-up: generateClosing returns a valid result with a
\* template method and needs_followup = true.
C23_ValidationFailureFollowup ==
    (crew = "closer" /\ gpc = "done" /\ ~ValidateAppointmentData(request)) =>
        /\ result.is_valid
        /\ result.generation_method \in TemplateMethods
        /\ result.needs_followup

\* the retry limit of the crew in use
GateMaxRetries == IF crew = "composer" THEN max_retries ELSE closer_max_retries

\* C24: the retry policy of the gate.  When the first outcome of the generator
\* is valid but below the threshold, the gate retries until max_retries
\* retries have been made, keeping the best outcome, and falls back to the
\* template only when the first attempt and all those retries stay below the
\* threshold.  Here: a call that entered the retry loop and returned a
\* template outcome has made all 1 + max_retries calls.
C24_RetryPolicy ==
    (gpc = "done" /\ nCalls >= 2 /\ result.generation_method \in TemplateMethods) =>
        nCalls = 1 + GateMaxRetries

\* the generator could not be called: none is configured, or isAvailable()
\* answered false or threw
NoGeneratorCall == ~llm_interface \/ availAnswer \in {"no", "throw"}

\* the step of the first generator call: it is counted, and it is the last
\* call when its outcome is invalid or meets the threshold
FirstCallCounted ==
    /\ nCalls' = 1
    /\ (\/ ~result'.is_valid
        \/ crew = "composer" /\ result'.quality_score >= quality_threshold
        \/ crew = "closer" /\ result'.confidence_score >= confidence_threshold)
          => gpc' = "fallback"

\* C25: one gate invocation makes at most 1 + max_retries calls to the
\* generator, whatever the generator returns: none when the generator is
\* absent or unavailable, and one only when the first outcome is invalid or
\* already meets the threshold.
C25_BoundedCalls ==
    /\ [](nCalls <= 1 + GateMaxRetries)
    /\ []((gpc \in {"fallback", "done", "threw"} /\ NoGeneratorCall) => nCalls = 0)
    /\ [][gpc = "first" => FirstCallCounted]_vars
    /\ [][(gpc \in {"fallback", "done"}) => (nCalls' = nCalls \/ gpc' = "idle")]_vars

\* a call that used the first attempt and both retries
C25_Witness ==
    /\ gpc = "done" /\ crew = "composer"
    /\ max_retries = 2
    /\ nCalls = 3

\* C26: the key of the template fallback.  The two-slot key is used when it
\* exists, otherwise a single-slot key; the generic template (method
\* template_fallback) is returned only if neither matches the target slots.
\* Here: a generic result means that no target slot has a template of its own.
C26_TemplateKeyChoice ==
    (crew = "composer" /\ gpc = "done" /\ result.generation_method = "template_fallback") =>
        /\ TemplateKey(limited_request) \notin DOMAIN entity_templates
        /\ \A k \in 1..Len(limited_request) : limited_request[k] \notin DOMAIN entity_templates

-----------------------------------------------------------------------------
(* The worker pool: order of service and resizing *)

\* task t has been pushed by composeQuestionAsync (tasks are pushed in the
\* order of their numbers)
Submitted(t) == promise[t] # "unsubmitted"

\* C27: tasks leave the queue in FIFO order.  For two tasks submitted one after
\* the other, no worker has started the later one while the earlier one is
\* still in the queue, in every interleaving of submitters and workers.
C27_FifoOrder ==
    \A t, u \in 1..MaxTasks :
        (t < u /\ Submitted(u) /\ ~InQueue(u, task_queue)) => ~InQueue(t, task_queue)

\* two workers run the two tasks at the same time
C27_Witness ==
    \E i, j \in DOMAIN worker_threads :
        /\ worker_threads[i] = [pc |-> "run", task |-> 1]
        /\ worker_threads[j] = [pc |-> "run", task |-> 2]

-----------------------------------------------------------------------------
(* SpecResize: adjustThreadCount called by the threads of ResizeThreads.     *)
(* adjustThreadCount, stopWorkers and startWorkers take no lock but the      *)
(* queue_mutex block that sets stop_workers, so the calls interleave at the  *)
(* granularity of their statements.  worker_threads is a std::vector that    *)
(* the calls read and modify without synchronisation: when two calls are     *)
(* inside their loops at once, the process may go on statement by statement  *)
(* or end (RaceFault).  Destroying a std::thread that is still joinable      *)
(* ends the process (std::terminate).  The workers are those of the pool.    *)

otherThanResize == <<esmVars, concVars, gateVars, groupVars, turnVars, sessionVars, repeatVars,
                     loadVars, moreVars>>

\* the pool's variables that no step of adjustThreadCount changes
poolRest == <<task_queue, promise, execCount, cpc, cOp, cNew, cIdx, resized, cPending>>

\* adjustThreadCount calls made in one behaviour of the model
MaxResizeCalls == 3

InitResize ==
    /\ InitEsm /\ InitConcIdle
    /\ crew = "composer" /\ llm_interface = FALSE /\ InitGateIdle
    /\ InitPoolIdle
    /\ \E n \in 1..MaxThreads : InitPoolThreads(n)
    /\ InitLaterIdle

\* thread t is inside stopWorkers or startWorkers
InResize(t) == apc[t] \in {"flag", "join", "start"}

\* thread t is inside a loop over worker_threads, or about to clear it
OnVector(t) == apc[t] \in {"join", "start"}

\* adjustThreadCount(new_count) is entered; an equal count returns at once
EnterAdjustThreadCount(t, new_count) ==
    /\ ~terminated
    /\ apc[t] = "idle"
    /\ aCalls < MaxResizeCalls
    /\ aCalls' = aCalls + 1
    /\ aNew' = [aNew EXCEPT ![t] = new_count]
    /\ IF new_count # num_worker_threads
       THEN /\ apc' = [apc EXCEPT ![t] = "flag"]
            /\ UNCHANGED lastDone
       ELSE /\ UNCHANGED apc
            /\ lastDone' = new_count
    /\ UNCHANGED <<aLoop, joined, terminated>>
    /\ UNCHANGED <<worker_threads, stop_workers, num_worker_threads, poolRest>>
    /\ UNCHANGED otherThanResize

\* stopWorkers: "stop_workers = true" under queue_mutex, then notify_all
ResizeSetFlag(t) ==
    /\ ~terminated
    /\ apc[t] = "flag"
    /\ stop_workers' = TRUE
    /\ aLoop' = [aLoop EXCEPT ![t] = 1]
    /\ apc' = [apc EXCEPT ![t] = "join"]
    /\ UNCHANGED <<aNew, joined, lastDone, aCalls, terminated>>
    /\ UNCHANGED <<worker_threads, num_worker_threads, poolRest>>
    /\ UNCHANGED otherThanResize

\* stopWorkers, one iteration of the join loop: a thread that is not joinable
\* is skipped, join() returns once the thread has left workerLoop
ResizeJoin(t) ==
    /\ ~terminated
    /\ apc[t] = "join"
    /\ aLoop[t] <= Len(worker_threads)
    /\ IF aLoop[t] \in joined
       THEN UNCHANGED joined
       ELSE /\ worker_threads[aLoop[t]].pc = "exited"
            /\ joined' = joined \cup {aLoop[t]}
    /\ aLoop' = [aLoop EXCEPT ![t] = @ + 1]
    /\ UNCHANGED <<apc, aNew, lastDone, aCalls, terminated>>
    /\ UNCHANGED <<worker_threads, stop_workers, num_worker_threads, poolRest>>
    /\ UNCHANGED otherThanResize

\* stopWorkers: worker_threads.clear() and return; then "num_worker_threads =
\* new_count".  A thread still joinable at clear() ends the process.
ResizeClear(t) ==
    /\ ~terminated
    /\ apc[t] = "join"
    /\ aLoop[t] > Len(worker_threads)
    /\ IF DOMAIN worker_threads \subseteq joined
       THEN /\ worker_threads' = <<>>
            /\ joined' = {}
            /\ num_worker_threads' = aNew[t]
            /\ aLoop' = [aLoop EXCEPT ![t] = 0]
            /\ apc' = [apc EXCEPT ![t] = "start"]
            /\ UNCHANGED terminated
       ELSE /\ terminated' = TRUE
            /\ UNCHANGED <<worker_threads, joined, num_worker_threads, aLoop, apc>>
    /\ UNCHANGED <<aNew, lastDone, aCalls>>
    /\ UNCHANGED <<stop_workers, poolRest>>
    /\ UNCHANGED otherThanResize

\* startWorkers: one iteration of the loop, emplace_back of a thread in workerLoop
ResizeStartOne(t) ==
    /\ ~terminated
    /\ apc[t] = "start"
    /\ aLoop[t] < num_worker_threads
    /\ worker_threads' = Append(worker_threads, NewWorker)
    /\ aLoop' = [aLoop EXCEPT ![t] = @ + 1]
    /\ UNCHANGED <<apc, aNew, joined, lastDone, aCalls, terminated>>
    /\ UNCHANGED <<stop_workers, num_worker_threads, poolRest>>
    /\ UNCHANGED otherThanResize

\* startWorkers returns, and with it adjustThreadCount
ResizeStartDone(t) ==
    /\ ~terminated
    /\ apc[t] = "start"
    /\ aLoop[t] >= num_worker_threads
    /\ apc' = [apc EXCEPT ![t] = "idle"]
    /\ lastDone' = aNew[t]
    /\ UNCHANGED <<aNew, aLoop, joined, aCalls, terminated>>
    /\ UNCHANGED <<worker_threads, stop_workers, num_worker_threads, poolRest>>
    /\ UNCHANGED otherThanResize

\* two calls are inside their loops over worker_threads at once: the
\* unsynchronised accesses to the vector may end the process
RaceFault ==
    /\ ~terminated
    /\ \E t, u \in ResizeThreads : t # u /\ OnVector(t) /\ OnVector(u)
    /\ terminated' = TRUE
    /\ UNCHANGED <<apc, aNew, aLoop, joined, lastDone, aCalls>>
    /\ UNCHANGED <<worker_threads, stop_workers, num_worker_threads, poolRest>>
    /\ UNCHANGED otherThanResize

\* a worker of the pool takes its step (with no task queued: it leaves
\* workerLoop once the stop flag is set)
ResizeWorker(i) == ~terminated /\ WorkerTake(i)

NextResize ==
    \/ \E t \in ResizeThreads, n \in 0..MaxThreads : EnterAdjustThreadCount(t, n)
    \/ \E t \in ResizeThreads : ResizeSetFlag(t)
    \/ \E t \in ResizeThreads : ResizeJoin(t)
    \/ \E t \in ResizeThreads : ResizeClear(t)
    \/ \E t \in ResizeThreads : ResizeStartOne(t)
    \/ \E t \in ResizeThreads : ResizeStartDone(t)
    \/ RaceFault
    \/ \E i \in Workers : ResizeWorker(i)

SpecResize == InitResize /\ [][NextResize]_vars

\* C28: resize calls are serialized.  When two threads call adjustThreadCount
\* concurrently, their stop and restart phases never overlap, worker_threads
\* is never worked on by both at once, and once all calls have returned the
\* number of live workers is the count requested by the call that returned last.
C28_ResizeSerialized ==
    /\ \A t, u \in ResizeThreads : (InResize(t) /\ InResize(u)) => t = u
    /\ \A t, u \in ResizeThreads : (OnVector(t) /\ OnVector(u)) => t = u
    /\ (~terminated /\ lastDone >= 0 /\ \A t \in ResizeThreads : apc[t] = "idle") =>
           Cardinality(LiveWorkers) = lastDone

-----------------------------------------------------------------------------
(* SpecLoad: adjustPerformanceBasedOnLoad is a public member function that  *)
(* any thread may call at any time; it is called by one thread, while the   *)
(* threads of TurnThreads run processInput (processInputAsync starts each   *)
(* on a thread of its own).  A turn is reduced to its states and to what it *)
(* does to active_processing_tasks; a fault of the composition task leaves *)
(* processInput at get(), before the decrement.  The resize itself is that  *)
(* of the pool, made by the pool's control thread.                          *)

otherThanLoad == <<esmVars, concVars, gateVars, poolVars, groupVars, turnVars, sessionVars,
                   repeatVars, resizeVars, moreVars>>

\* std::thread::hardware_concurrency() of the machines modelled (0: not computable)
CoreCounts == {0, 1, 2, 4, 8}

\* processInput calls made in one behaviour of the model
MaxTurns == 3

InitLoad ==
    /\ InitEsm /\ InitConcIdle
    /\ crew = "composer" /\ llm_interface = FALSE /\ InitGateIdle
    /\ InitPoolIdle
    /\ \E cores \in CoreCounts : InitCores(cores)
    /\ InitPoolThreads(composition_threads)
    /\ InitTurnsIdle
    /\ InitGroupIdle /\ InitTurnIdle /\ InitSessionIdle /\ InitRepeatIdle /\ InitResizeIdle
    /\ InitMoreIdle

\* thread t's turn is between its Classifying and Done states
MidTurn(t) == turn_state[t] \in {"Classifying", "ExtractingAndComposing", "Closing"}

\* processInput is entered: "active_processing_tasks++", then classification
TurnBegin(t) ==
    /\ turn_state[t] = "Idle"
    /\ turnsBegun < MaxTurns
    /\ turnsBegun' = turnsBegun + 1
    /\ active_processing_tasks' = active_processing_tasks + 1
    /\ turn_state' = [turn_state EXCEPT ![t] = "Classifying"]
    /\ UNCHANGED <<total_cpu_cores, composition_threads>>
    /\ UNCHANGED otherThanLoad

\* classification has returned: the extraction and composition tasks are started
TurnFanOut(t) ==
    /\ turn_state[t] = "Classifying"
    /\ turn_state' = [turn_state EXCEPT ![t] = "ExtractingAndComposing"]
    /\ UNCHANGED <<total_cpu_cores, composition_threads, active_processing_tasks, turnsBegun>>
    /\ UNCHANGED otherThanLoad

\* both tasks are joined: the closing check
TurnClosing(t) ==
    /\ turn_state[t] = "ExtractingAndComposing"
    /\ turn_state' = [turn_state EXCEPT ![t] = "Closing"]
    /\ UNCHANGED <<total_cpu_cores, composition_threads, active_processing_tasks, turnsBegun>>
    /\ UNCHANGED otherThanLoad

\* the results are combined: "active_processing_tasks--"
TurnDone(t) ==
    /\ turn_state[t] = "Closing"
    /\ active_processing_tasks' = active_processing_tasks - 1
    /\ turn_state' = [turn_state EXCEPT ![t] = "Done"]
    /\ UNCHANGED <<total_cpu_cores, composition_threads, turnsBegun>>
    /\ UNCHANGED otherThanLoad

\* processInput returns its result
TurnReturns(t) ==
    /\ turn_state[t] = "Done"
    /\ turn_state' = [turn_state EXCEPT ![t] = "Idle"]
    /\ UNCHANGED <<total_cpu_cores, composition_threads, active_processing_tasks, turnsBegun>>
    /\ UNCHANGED otherThanLoad

\* composition_future.get() rethrows what composeQuestion threw: processInput
\* is left by the exception, the counter is not decremented
TurnThrows(t) ==
    /\ turn_state[t] = "ExtractingAndComposing"
    /\ turn_state' = [turn_state EXCEPT ![t] = "Idle"]
    /\ UNCHANGED <<total_cpu_cores, composition_threads, active_processing_tasks, turnsBegun>>
    /\ UNCHANGED otherThanLoad

\* the argument of adjustThreadCount when the system is overloaded
ShrinkTarget(threads) == threads - 1

\* the argument of adjustThreadCount when the system is underutilized
GrowTarget(threads) == threads + 1

\* adjustPerformanceBasedOnLoad, up to the entry of adjustThreadCount; the
\* steps of the resize are those of the pool's control thread
AdjustPerformanceBasedOnLoad ==
    /\ cpc = "idle"
    /\ LET current_load == active_processing_tasks IN
        IF current_load > total_cpu_cores
        THEN CallAdjustThreadCount(ShrinkTarget(composition_threads))
        ELSE IF current_load < total_cpu_cores \div 2
             THEN CallAdjustThreadCount(GrowTarget(composition_threads))
             ELSE UNCHANGED vars

NextLoad ==
    \/ \E t \in TurnThreads : TurnBegin(t)
    \/ \E t \in TurnThreads : TurnFanOut(t)
    \/ \E t \in TurnThreads : TurnClosing(t)
    \/ \E t \in TurnThreads : TurnDone(t)
    \/ \E t \in TurnThreads : TurnReturns(t)
    \/ \E t \in TurnThreads : TurnThrows(t)
    \/ AdjustPerformanceBasedOnLoad
    \/ StopSetFlag
    \/ StopJoin
    \/ StopClear
    \/ StartOne
    \/ StartDone
    \/ \E i \in Workers : WorkerTake(i)

SpecLoad == InitLoad /\ [][NextLoad]_vars

\* C29: load-driven sizing keeps a floor of one worker.  After any sequence of
\* adjustPerformanceBasedOnLoad calls, for any core count and any load, the
\* composition pool has at least 1 worker; a shrink lowers the current count
\* by one and only when it is above 1; a grow raises the current count by one.
C29_FloorOfOne ==
    /\ [](num_worker_threads >= 1)
    /\ [][num_worker_threads' < num_worker_threads =>
            (num_worker_threads > 1 /\ num_worker_threads' = num_worker_threads - 1)]_vars
    /\ [][num_worker_threads' > num_worker_threads =>
            num_worker_threads' = num_worker_threads + 1]_vars

\* C30: a pool resize is applied only between turns.  No adjustThreadCount
\* (stop and restart of the workers) is in progress while any turn is between
\* its Classifying and Done states.
C30_ResizeOnlyBetweenTurns ==
    (cpc \in {"flag", "join", "start"}) => \A t \in TurnThreads : ~MidTurn(t)

\* the turns in progress: entered and not yet at their end
TurnsInProgress == {t \in TurnThreads : MidTurn(t)}

\* C31: the active-turn counter equals the number of turns in progress, so it
\* is 0 whenever no turn is running, also after a turn that ended because a
\* stage raised a fault, and under concurrent processInputAsync calls.
C31_CounterIsTurnsInProgress ==
    active_processing_tasks = Cardinality(TurnsInProgress)

-----------------------------------------------------------------------------
(* The turn's effect on the slot state *)

\* the results of this turn's extraction that are found, for slot e
FoundFor(e) ==
    {k \in DOMAIN extraction_results :
        extraction_results[k].entity_name = e /\ extraction_results[k].found}

\* slot e is as it was when the turn started
SlotKept(e) ==
    /\ (e \in DOMAIN entity_values) <=> (e \in DOMAIN startState)
    /\ e \in DOMAIN startState => entity_values[e] = startState[e]

-----------------------------------------------------------------------------
(* SpecProbe: ClassificationCrew::classifyAllEntities and                   *)
(* ExtractionCrew::extractWithFallback as functions of what each slot's     *)
(* model does in the call.  A model can be absent from the crew's map (its  *)
(* load failed), fault during inference, or answer.  Confidences and        *)
(* thresholds are in hundredths.  The per-slot tasks share no state, so a   *)
(* call is one step.                                                        *)

otherThanProbe == <<esmVars, concVars, gateVars, poolVars, groupVars, turnVars, sessionVars,
                    repeatVars, resizeVars, loadVars, storeVars>>

\* the thresholds a crew is constructed with or set to
ProbeThresholds == {0, 50, 70, 100}

\* what a slot's model can do in a call
Missing == [kind |-> "missing", confidence |-> 0, text |-> ""]
InferenceError == [kind |-> "error", confidence |-> 0, text |-> ""]
SvmAnswer(c) == [kind |-> "ok", confidence |-> c, text |-> ""]
NerAnswer(x) == [kind |-> "ok", confidence |-> 0, text |-> x]

SvmProbes == {Missing, InferenceError} \cup {SvmAnswer(c) : c \in {0, 50, 100}}
NerProbes == {Missing, InferenceError} \cup {NerAnswer(x) : x \in {"", "v1"}}

\* the probe of the slot faults: its model is missing or its inference fails
Faulted(p) == p.kind \in {"missing", "error"}

\* SVMModel::predict: the probability of class 1; an exception is caught and
\* 0.0f is returned
Predict(p) == IF p.kind = "error" THEN 0 ELSE p.confidence

\* the task of classifyEntityAsync for one slot
ClassifyEntity(entity_type, p, threshold) ==
    IF p.kind = "missing"
    THEN [entity_name |-> entity_type, confidence |-> 0, detected |-> FALSE]
    ELSE [entity_name |-> entity_type, confidence |-> Predict(p),
          detected |-> (Predict(p) >= threshold)]

\* classifyAllEntities: one task per entry of entity_types, collected in order
ClassifyAllEntities(ps, threshold) ==
    [k \in 1..Len(required_entities) |->
        ClassifyEntity(required_entities[k], ps[required_entities[k]], threshold)]

\* ExtractionResult's constructor
EmptyExtraction(entity_type) ==
    [entity_name |-> entity_type, extracted_value |-> "", ner_confidence |-> 0,
     found |-> FALSE, method_used |-> "none"]

\* the task of extractEntityAsync for one slot: an exception of extract is caught
ExtractEntity(entity_type, p) ==
    IF p.kind = "ok" /\ p.text # ""
    THEN [entity_name |-> entity_type, extracted_value |-> p.text, ner_confidence |-> 100,
          found |-> TRUE, method_used |-> "ner"]
    ELSE EmptyExtraction(entity_type)

\* llmFallback: never finds a value
LlmFallback(entity_type) == [EmptyExtraction(entity_type) EXCEPT !.method_used = "llm_fallback"]

\* extractWithFallback: extractEntities, then the fallback for weak results
ExtractWithFallback(targets, ps, threshold) ==
    [k \in 1..Len(targets) |->
        LET ner_result == ExtractEntity(targets[k], ps[targets[k]])
            llm_result == LlmFallback(targets[k])
        IN IF (~ner_result.found \/ ner_result.ner_confidence < threshold) /\ llm_result.found
           THEN llm_result
           ELSE ner_result]

InitProbe ==
    /\ InitEsm /\ InitConcIdle
    /\ crew = "composer" /\ llm_interface = FALSE /\ InitGateIdle
    /\ InitPoolIdle /\ InitPoolThreads(1)
    /\ InitGroupIdle /\ InitTurnIdle /\ InitSessionIdle /\ InitRepeatIdle /\ InitResizeIdle
    /\ InitLoadIdle
    /\ InitProbeIdle /\ InitStoreIdle

\* ClassificationCrew::setConfidenceThreshold
ClassifierSetConfidenceThreshold(threshold) ==
    /\ probe_pc = "idle"
    /\ svm_threshold' = threshold
    /\ UNCHANGED <<probe_pc, ner_threshold, probes, probe_targets, probe_results>>
    /\ UNCHANGED otherThanProbe

\* ExtractionCrew::setNERConfidenceThreshold
SetNERConfidenceThreshold(threshold) ==
    /\ probe_pc = "idle"
    /\ ner_threshold' = threshold
    /\ UNCHANGED <<probe_pc, svm_threshold, probes, probe_targets, probe_results>>
    /\ UNCHANGED otherThanProbe

\* a classifyAllEntities call, on any behaviour of the five models
CallClassifyAllEntities ==
    /\ probe_pc = "idle"
    /\ \E ps \in [SlotNames -> SvmProbes] :
          /\ probes' = ps
          /\ probe_results' = ClassifyAllEntities(ps, svm_threshold)
    /\ probe_targets' = required_entities
    /\ probe_pc' = "classified"
    /\ UNCHANGED <<svm_threshold, ner_threshold>>
    /\ UNCHANGED otherThanProbe

\* an extractWithFallback call for a list of target slots
CallExtractWithFallback ==
    /\ probe_pc = "idle"
    /\ \E targets \in DetectedLists :
          /\ probe_targets' = targets
          /\ \E ps \in {q \in [SlotNames -> NerProbes \cup {NoProbe}] :
                          \A e \in SlotNames : q[e] = NoProbe <=> e \notin Range(targets)} :
                /\ probes' = ps
                /\ probe_results' = ExtractWithFallback(targets, ps, ner_threshold)
    /\ probe_pc' = "extracted"
    /\ UNCHANGED <<svm_threshold, ner_threshold>>
    /\ UNCHANGED otherThanProbe

\* the caller has taken the results
ProbeReturn ==
    /\ probe_pc \in {"classified", "extracted"}
    /\ probe_pc' = "idle"
    /\ probes' = [e \in SlotNames |-> NoProbe]
    /\ probe_targets' = <<>>
    /\ probe_results' = <<>>
    /\ UNCHANGED <<svm_threshold, ner_threshold>>
    /\ UNCHANGED otherThanProbe

NextProbe ==
    \/ \E threshold \in ProbeThresholds : ClassifierSetConfidenceThreshold(threshold)
    \/ \E threshold \in ProbeThresholds : SetNERConfidenceThreshold(threshold)
    \/ CallClassifyAllEntities
    \/ CallExtractWithFallback
    \/ ProbeReturn

SpecProbe == InitProbe /\ [][NextProbe]_vars

\* the outcome says detected (classification) or found (extraction)
Positive(r) == IF probe_pc = "classified" THEN r.detected ELSE r.found

\* what the slot's probe alone decides, when it does not fault
OwnOutcome(p) ==
    IF probe_pc = "classified" THEN p.confidence >= svm_threshold ELSE p.text # ""

\* C33: a probe fault is recovered per slot.  When the classification or
\* extraction probe of a slot faults (model missing, inference error), that
\* slot's outcome is not-detected / not-found for every threshold value, the
\* outcomes of the other slots are unaffected, and exactly one outcome per
\* requested slot is returned, in request order.
C33_ProbeFaultRecovered ==
    probe_pc \in {"classified", "extracted"} =>
        /\ Len(probe_results) = Len(probe_targets)
        /\ \A k \in 1..Len(probe_targets) :
              LET p == probes[probe_targets[k]]
              IN /\ probe_results[k].entity_name = probe_targets[k]
                 /\ Faulted(p) => ~Positive(probe_results[k])
                 /\ ~Faulted(p) => (Positive(probe_results[k]) <=> OwnOutcome(p))

-----------------------------------------------------------------------------
(* SessionController: completion, stability of known slots, errors *)

\* the fields of ConfigModel that update_session maps to a slot of the crews
SupportedFields == {"name", "phone", "day", "time", "service"}

\* name, phone, day, time and service are filled in c
FiveFilled(c) == \A f \in SupportedFields : c[f] # ""

\* C34: a SessionController session can reach completion.  Once name, phone,
\* day, time and service are all filled, update_session reports "Perfect! I
\* have all your information." and get_session reports "Your information is
\* complete!" instead of asking a further question.
C34_FiveSlotsComplete ==
    \A t \in SessionThreads :
        (calls[t].pc = "ret" /\ calls[t].result.session_active
            /\ FiveFilled(StoredSession(sessions_, calls[t].id))) =>
            /\ (calls[t].op = "update" /\ calls[t].result.response # ProcessingError.response) =>
                  calls[t].result.response = "Perfect! I have all your information."
            /\ calls[t].op = "get" =>
                  calls[t].result.response = "Your information is complete!"

-----------------------------------------------------------------------------
(* SpecStore: AppointmentManager::storeAppointment called by one thread.     *)
(* storeAppointment holds appointments_mutex, a std::mutex, when it calls    *)
(* hasTimeConflict, which locks the same mutex with its own lock_guard.      *)
(* Locking a std::mutex the thread already owns is undefined: the call may   *)
(* block for ever, throw std::system_error, or go on (a build in which the   *)
(* lock is a no-op).                                                         *)

otherThanStore == <<esmVars, concVars, gateVars, poolVars, groupVars, turnVars, sessionVars,
                    repeatVars, resizeVars, loadVars, probeVars>>

Days == {"Monday", "Tuesday"}
Times == {"9am", "2pm"}
Appointments == {Appointment(day, time) : day \in Days, time \in Times}

\* what locking the mutex again can do
RelockOutcomes == {"blocked", "threw", "checked"}

InitStore ==
    /\ InitEsm /\ InitConcIdle
    /\ crew = "composer" /\ llm_interface = FALSE /\ InitGateIdle
    /\ InitPoolIdle /\ InitPoolThreads(1)
    /\ InitLaterIdle

\* hasTimeConflict's loop over the list
HasTimeConflict(list, day, time) ==
    \E k \in 1..Len(list) : list[k].preferred_day = day /\ list[k].preferred_time = time

\* storeAppointment is entered: its lock_guard takes appointments_mutex
StoreAppointment(appointment) ==
    /\ store_pc = "idle"
    /\ appointments_mutex = "free"
    /\ appointments_mutex' = "caller"
    /\ store_arg' = appointment
    /\ store_before' = confirmed_appointments
    /\ store_pc' = "locked"
    /\ UNCHANGED <<confirmed_appointments, store_ret>>
    /\ UNCHANGED otherThanStore

\* hasTimeConflict is called: its lock_guard locks the mutex the thread owns.
\* An exception leaves storeAppointment, whose lock_guard releases the mutex.
HasTimeConflictLock ==
    /\ store_pc = "locked"
    /\ \E outcome \in RelockOutcomes :
          /\ store_pc' = outcome
          /\ appointments_mutex' = IF outcome = "threw" THEN "free" ELSE appointments_mutex
    /\ UNCHANGED <<confirmed_appointments, store_arg, store_ret, store_before>>
    /\ UNCHANGED otherThanStore

\* hasTimeConflict has returned: refuse on a conflict, else push_back; return
StoreFinish ==
    /\ store_pc = "checked"
    /\ IF HasTimeConflict(confirmed_appointments, store_arg.preferred_day,
                          store_arg.preferred_time)
       THEN /\ store_ret' = FALSE
            /\ UNCHANGED confirmed_appointments
       ELSE /\ store_ret' = TRUE
            /\ confirmed_appointments' = Append(confirmed_appointments, store_arg)
    /\ appointments_mutex' = "free"
    /\ store_pc' = "returned"
    /\ UNCHANGED <<store_arg, store_before>>
    /\ UNCHANGED otherThanStore

\* the caller goes on after the call returned or threw
StoreCallerContinues ==
    /\ store_pc \in {"returned", "threw"}
    /\ store_pc' = "idle"
    /\ UNCHANGED <<confirmed_appointments, appointments_mutex, store_arg, store_ret,
                   store_before>>
    /\ UNCHANGED otherThanStore

\* AppointmentManager::reset
AppointmentReset ==
    /\ store_pc = "idle"
    /\ appointments_mutex = "free"
    /\ confirmed_appointments' = <<>>
    /\ UNCHANGED <<appointments_mutex, store_pc, store_arg, store_ret, store_before>>
    /\ UNCHANGED otherThanStore

NextStore ==
    \/ \E appointment \in Appointments : StoreAppointment(appointment)
    \/ HasTimeConflictLock
    \/ StoreFinish
    \/ StoreCallerContinues
    \/ AppointmentReset

SpecStore == InitStore /\ [][NextStore]_vars

\* the scheduler: the calling thread takes the steps it can take
FairSpecStore ==
    InitStore /\ [][NextStore]_vars /\ WF_vars(HasTimeConflictLock) /\ WF_vars(StoreFinish)

\* C35: storeAppointment always returns.  Called on any manager state it
\* terminates (it never blocks for ever on its own mutex); it returns false
\* and leaves the list unchanged when an appointment with the same day and
\* time is stored, and otherwise appends the appointment and returns true.
C35_StoreAlwaysReturns ==
    /\ (store_pc = "locked") ~> (store_pc = "returned")
    /\ [](store_pc = "returned" =>
            IF HasTimeConflict(store_before, store_arg.preferred_day, store_arg.preferred_time)
            THEN store_ret = FALSE /\ confirmed_appointments = store_before
            ELSE store_ret = TRUE
                 /\ confirmed_appointments = Append(store_before, store_arg))

-----------------------------------------------------------------------------
(* The planner's first group and the templates *)

\* the list is a subsequence of the fixed order of the required slots
InRequiredOrder(missing) ==
    missing = SelectSeq(required_entities, LAMBDA x : x \in Range(missing))

\* C36: every first group the planner can produce from the fixed order of the
\* required slots has a slot-specific template.  For every non-empty missing
\* list that is a subsequence of the required slots, generateWithTemplate on
\* the first group returns method "template", never "template_fallback".
C36_FirstGroupHasTemplate ==
    (grouped /\ missing_entities # <<>> /\ InRequiredOrder(missing_entities)) =>
        \A variant \in Variants :
            GenerateWithTemplate(groups[1], variant).generation_method = "template"

\* thread t's update_session call stores its ConfigModel in this step
UpdateStores(t) ==
    /\ calls[t].op = "update" /\ calls[t].pc \in {"classify", "extract"}
    /\ calls'[t].pc = "ret" /\ calls'[t].result.response # ProcessingError.response

\* C37: in SessionController known slots are stable across turns.  An
\* update_session call on an active session keeps the value of every slot that
\* was known when it started, so the set of known slots never shrinks.
C37_KnownSlotsStable ==
    [][\A t \in SessionThreads :
          UpdateStores(t) =>
              \A f \in Range(ConfigFields) :
                  StoredSession(sessions_, calls[t].id)[f] # "" =>
                      StoredSession(sessions_', calls[t].id)[f] =
                          StoredSession(sessions_, calls[t].id)[f]]_vars

\* an update_session call has returned after filling a field of a session in
\* which another field was known
C37_Witness ==
    \E t \in SessionThreads :
        /\ calls[t].pc = "ret" /\ calls[t].op = "update"
        /\ calls[t].filled_beside_known

\* thread t's update_session call ends in its catch block in this step
UpdateFaults(t) ==
    /\ calls[t].op = "update" /\ calls[t].pc \in {"classify", "extract"}
    /\ calls'[t].pc = "ret" /\ calls'[t].result.response = ProcessingError.response

\* C38: state unchanged on error.  When the classifier or the extractor raises
\* a fault during update_session, the call returns "Error processing input."
\* with session_active true, and the stored slot values and the active flag of
\* the session are what they were before the call.
C38_StateUnchangedOnError ==
    [][\A t \in SessionThreads :
          UpdateFaults(t) =>
              /\ calls'[t].result.session_active
              /\ sessions_' = sessions_
              /\ active_sessions_' = active_sessions_
              /\ StoredSession(sessions_', calls[t].id) = calls[t].current_entities
              /\ IsSessionActive(active_sessions_', calls[t].id)]_vars

\* an update_session call on a session with a filled field has returned the
\* error outcome
C38_Witness ==
    \E t \in SessionThreads :
        /\ calls[t].pc = "ret" /\ calls[t].op = "update"
        /\ calls[t].result.response = ProcessingError.response
        /\ \E f \in Range(ConfigFields) : StoredSession(sessions_, calls[t].id)[f] # ""

\* thread t's update_session call is between its read of the stored ConfigModel
\* and its write
InUpdateBody(t) == calls[t].op = "update" /\ calls[t].pc \in {"classify", "extract"}

\* C39: no lost update under concurrent update_session calls on one
\* SessionController.  The read-modify-write of a call is atomic: while a call
\* is between its read and its write, the stored ConfigModel of its session is
\* the one it read and the session is active, and no other call is between its
\* own read and write; so the calls take effect in some serial order and every
\* value stored by one is in the state the next one reads.
C39_NoLostUpdate ==
    \A t \in SessionThreads :
        InUpdateBody(t) =>
            /\ StoredSession(sessions_, calls[t].id) = calls[t].current_entities
            /\ IsSessionActive(active_sessions_, calls[t].id)
            /\ \A u \in SessionThreads \ {t} : ~InUpdateBody(u)

\* a directly called update_session is between its read and its write, holding
\* controller_mutex_, on a session in which an earlier call stored a value
C39_Witness ==
    \E t \in SessionThreads :
        /\ mode = "direct" /\ InUpdateBody(t) /\ controller_mutex_ = t
        /\ \E f \in Range(ConfigFields) : StoredSession(sessions_, calls[t].id)[f] # ""

====
